---- MODULE Spec2Model ----
(***************************************************************************)
(* Model of the LimbsSftyLnFSwtch class (src/src/LimbsSafetySw_ESP32.cpp): *)
(* the limbs safety "launch and forget" switch automaton (FDA), its timed  *)
(* outputs, its underlying hand and foot switches and its poll driver.     *)
(*                                                                         *)
(* The object is one record, `ls`; every method of the class is an         *)
(* operator from the object before the call to the object after it, so a   *)
(* method body reads in the order of the source.  The class-static         *)
(* _ltchRlsPndng is a variable of its own.                                 *)
(***************************************************************************)
EXTENDS Integers, Sequences, FiniteSets, TLC

VARIABLES
    ls,             \* the LimbsSftyLnFSwtch object and its three underlying switches
    ltchRlsPndng,   \* static bool LimbsSftyLnFSwtch::_ltchRlsPndng
    tickFrom,       \* history: the FDA state the last poll tick evaluated ("none": the last step was no tick)
    ftPrssdInWndw,  \* history: the foot switch has fired in an armed window (stOffBHPNotFP), both hands being on
    preCyclEnbld,   \* history: the hand switches' isEnabled when the foot press was accepted (a set of at most one)
    cfgLog,         \* history: the last calls of the time setters, with their return values
    cdc,            \* the status word a caller got and what it decoded from it
    rc,             \* the calls in progress in tasks that run concurrently, each at its position
    othr            \* the second LimbsSftyLnFSwtch object of the program, if there is one

\* The variables only the specifications of the setters, of the codec, of the
\* concurrent callers and of the two objects change.
auxVars == <<cfgLog, cdc, rc, othr>>

vars == <<ls, ltchRlsPndng, tickFrom, ftPrssdInWndw, preCyclEnbld, cfgLog, cdc, rc, othr>>

----------------------------------------------------------------------------
(* Bounds of the model *)

\* The time base is an unsigned counter of TimerBits bits (32 on the target).
TimerBits == 13
ULongMod == 2 ^ TimerBits

\* Spec explores the time line at 2^SlotBits instants per wrap of the time base.
SlotBits == 2
TickUnit == ULongMod \div (2 ^ SlotBits)

\* In Spec a poll tick comes 1..MaxTickStep units after the previous one.
MaxTickStep == 2

\* In Spec the configured times are 1..MaxTtl units.
MaxTtl == 2

\* The output-change counter is an unsigned counter of CntBits bits (32 on the target).
CntBits == 2
CntMod == 2 ^ CntBits

----------------------------------------------------------------------------
(* Types *)

Hnds == {"lft", "rght"}

stOffNotBHP == "stOffNotBHP"
stOffBHPNotFP == "stOffBHPNotFP"
stStrtRlsStrtCycl == "stStrtRlsStrtCycl"
stEndRls == "stEndRls"
stEndCycl == "stEndCycl"
stEmrgncyExcpHndl == "stEmrgncyExcpHndl"

fdaLsSwtchStts ==
    {stOffNotBHP, stOffBHPNotFP, stStrtRlsStrtCycl, stEndRls, stEndCycl, stEmrgncyExcpHndl}

\* preCyclEnbld outside a cycle, or once a hand switch was reconfigured during it.
NoCycl == {}

----------------------------------------------------------------------------
(* The underlying switches (ButtonToSwitch_ESP32 objects), as the class    *)
(* uses them: enable(), disable(), setIsOnDisabled(), getOtptsSttsPkgd().  *)

\* disable(): the switch stops following its button and shows isOnDisabled.
mpbDisable(m) ==
    IF m.isEnabled
    THEN [m EXCEPT !.isEnabled = FALSE, !.isOn = m.isOnDisabled, !.isVoided = FALSE]
    ELSE m

\* enable(): the switch follows its button again, starting off.
mpbEnable(m) ==
    IF m.isEnabled
    THEN m
    ELSE [m EXCEPT !.isEnabled = TRUE, !.isOn = FALSE, !.isVoided = FALSE]

\* setIsOnDisabled(v): the isOn value shown while disabled.
mpbSetIsOnDisabled(m, v) ==
    [m EXCEPT !.isOnDisabled = v, !.isOn = IF m.isEnabled THEN m.isOn ELSE v]

\* otptsSttsUnpkg(getOtptsSttsPkgd()): the switch's status triple.
mpbOtpts(m) ==
    [isOn |-> m.isOn, isEnabled |-> m.isEnabled, isVoided |-> m.isVoided]

\* The foot switch (SnglSrvcVdblMPBttn): enable() and disable(); it shows off while disabled.
ftEnable(f) ==
    [f EXCEPT !.isEnabled = TRUE]

ftDisable(f) ==
    [f EXCEPT !.isEnabled = FALSE, !.isOn = FALSE]

ftOtpts(f) ==
    [isOn |-> f.isOn, isEnabled |-> f.isEnabled]

----------------------------------------------------------------------------
(* The methods of LimbsSftyLnFSwtch *)

clrSttChng(s) ==
    [s EXCEPT !.sttChng = FALSE]

setSttChng(s) ==
    [s EXCEPT !.sttChng = TRUE]

\* Variant: the difference is not taken modulo the width of the time base.
ElapsedMs_NoMod(s) ==
    s.curTimeMs - s.prdCyclTmrStrt

\* Elapsed time since the cycle start: unsigned subtraction.
ElapsedMs(s) ==
    (s.curTimeMs - s.prdCyclTmrStrt) % ULongMod

\* _lftHndSwtchStts.isOn && _rghtHndSwtchStts.isOn, on the status snapshot.
bothHndsOn(stts) ==
    stts.hnd["lft"].isOn /\ stts.hnd["rght"].isOn

\* Variant: the decrement is not floored at zero.
setLsSwtchOtptsChng_NoFloor(s, newLsSwtchOtptsChng) ==
    LET cnt == IF newLsSwtchOtptsChng
               THEN (s.lsSwtchOtptsChngCnt + 1) % CntMod
               ELSE (s.lsSwtchOtptsChngCnt - 1) % CntMod
    IN  [s EXCEPT !.lsSwtchOtptsChngCnt = cnt, !.lsSwtchOtptsChng = (cnt # 0)]

setLsSwtchOtptsChng(s, newLsSwtchOtptsChng) ==
    LET cnt == IF newLsSwtchOtptsChng
               THEN (s.lsSwtchOtptsChngCnt + 1) % CntMod
               ELSE IF s.lsSwtchOtptsChngCnt # 0
                    THEN s.lsSwtchOtptsChngCnt - 1
                    ELSE s.lsSwtchOtptsChngCnt
    IN  [s EXCEPT !.lsSwtchOtptsChngCnt = cnt, !.lsSwtchOtptsChng = (cnt # 0)]

\* Variant: the hand switches are enabled whatever their configuration.
clrStatus_EnblHnds(s) ==
    [s EXCEPT !.ltchRlsIsOn = FALSE,
              !.prdCyclIsOn = FALSE,
              !.prdCyclTmrStrt = 0,
              !.ft = ftDisable(s.ft),
              !.hnd = [h \in Hnds |-> mpbEnable(mpbSetIsOnDisabled(s.hnd[h], TRUE))]]

clrStatus(s) ==
    LET rstHnd(h) ==
            LET m == mpbSetIsOnDisabled(s.hnd[h], TRUE)
            IN  IF s.hndBhvrCfg[h] THEN mpbEnable(m) ELSE mpbDisable(m)
    IN  [s EXCEPT !.ltchRlsIsOn = FALSE,
                  !.prdCyclIsOn = FALSE,
                  !.prdCyclTmrStrt = 0,
                  !.ft = ftDisable(s.ft),
                  !.hnd = [h \in Hnds |-> rstHnd(h)]]

\* The status snapshot: _lftHndSwtchStts, _rghtHndSwtchStts and _ftSwtchStts.  Every
\* method that reads these members writes them first (lsSwtchPollCb,
\* getLsSwtchOtptsSttsPkgd), so the snapshot is a value of the call, not of the state.
getUndrlSwtchStts(s) ==
    [hnd |-> [h \in Hnds |-> mpbOtpts(s.hnd[h])], ft |-> ftOtpts(s.ft)]

\* The bit positions of the status word.
lftHndSwtchIsEnbldBP == 0
lftHndSwtchIsOnBP == 1
lftHndSwtchIsVddBP == 2
rghtHndSwtchIsEnbldBP == 3
rghtHndSwtchIsOnBP == 4
rghtHndSwtchIsVddBP == 5
ftSwtchIsEnbldBP == 6
ftSwtchIsOnBP == 7
LsSwtchLtchRlsIsOnBP == 8
LsSwtchPrdCyclIsOnBP == 9

\* w & (1 << bp), as 0 or 1.
BitOf(w, bp) ==
    (w \div (2 ^ bp)) % 2

\* if(flag) w |= 1 << bp; else w &= ~(1 << bp);
PutBit(w, flag, bp) ==
    IF flag
    THEN IF BitOf(w, bp) = 1 THEN w ELSE w + 2 ^ bp
    ELSE IF BitOf(w, bp) = 1 THEN w - 2 ^ bp ELSE w

\* _lsSwtchOtptsSttsPkgd(prevVal), on the status snapshot stts.
lsSwtchOtptsSttsPkgd(s, stts, prevVal) ==
    LET w0 == PutBit(prevVal, stts.hnd["lft"].isEnabled, lftHndSwtchIsEnbldBP)
        w1 == PutBit(w0, stts.hnd["lft"].isOn, lftHndSwtchIsOnBP)
        w2 == PutBit(w1, stts.hnd["lft"].isVoided, lftHndSwtchIsVddBP)
        w3 == PutBit(w2, stts.hnd["rght"].isEnabled, rghtHndSwtchIsEnbldBP)
        w4 == PutBit(w3, stts.hnd["rght"].isOn, rghtHndSwtchIsOnBP)
        w5 == PutBit(w4, stts.hnd["rght"].isVoided, rghtHndSwtchIsVddBP)
        w6 == PutBit(w5, stts.ft.isEnabled, ftSwtchIsEnbldBP)
        w7 == PutBit(w6, stts.ft.isOn, ftSwtchIsOnBP)
        w8 == PutBit(w7, s.ltchRlsIsOn, LsSwtchLtchRlsIsOnBP)
        w9 == PutBit(w8, s.prdCyclIsOn, LsSwtchPrdCyclIsOnBP)
    IN  w9

\* Variant: the word is built on a previous value with a reserved bit set.
getLsSwtchOtptsSttsPkgd_Rsrvd(s) ==
    lsSwtchOtptsSttsPkgd(s, getUndrlSwtchStts(s), 2 ^ 10)

\* getLsSwtchOtptsSttsPkgd(): the snapshot is refreshed, prevVal is its default, 0.
getLsSwtchOtptsSttsPkgd(s) ==
    lsSwtchOtptsSttsPkgd(s, getUndrlSwtchStts(s), 0)

\* Variant: rghtHndIsVdd is read at the position of rghtHndIsOn.
lssOtptsSttsUnpkg_VddFromOn(pkgOtpts) ==
    [lftHndIsEnbld |-> BitOf(pkgOtpts, lftHndSwtchIsEnbldBP) = 1,
     lftHndIsOn |-> BitOf(pkgOtpts, lftHndSwtchIsOnBP) = 1,
     lftHndIsVdd |-> BitOf(pkgOtpts, lftHndSwtchIsVddBP) = 1,
     rghtHndIsEnbld |-> BitOf(pkgOtpts, rghtHndSwtchIsEnbldBP) = 1,
     rghtHndIsOn |-> BitOf(pkgOtpts, rghtHndSwtchIsOnBP) = 1,
     rghtHndIsVdd |-> BitOf(pkgOtpts, rghtHndSwtchIsOnBP) = 1,
     ftSwIsEnbld |-> BitOf(pkgOtpts, ftSwtchIsEnbldBP) = 1,
     ftSwIsOn |-> BitOf(pkgOtpts, ftSwtchIsOnBP) = 1,
     ltchRlsIsOn |-> BitOf(pkgOtpts, LsSwtchLtchRlsIsOnBP) = 1,
     prdCyclIsOn |-> BitOf(pkgOtpts, LsSwtchPrdCyclIsOnBP) = 1]

\* lssOtptsSttsUnpkg(pkgOtpts): the lsSwtchOtpts_t decoded from a status word.
lssOtptsSttsUnpkg(pkgOtpts) ==
    [lftHndIsEnbld |-> BitOf(pkgOtpts, lftHndSwtchIsEnbldBP) = 1,
     lftHndIsOn |-> BitOf(pkgOtpts, lftHndSwtchIsOnBP) = 1,
     lftHndIsVdd |-> BitOf(pkgOtpts, lftHndSwtchIsVddBP) = 1,
     rghtHndIsEnbld |-> BitOf(pkgOtpts, rghtHndSwtchIsEnbldBP) = 1,
     rghtHndIsOn |-> BitOf(pkgOtpts, rghtHndSwtchIsOnBP) = 1,
     rghtHndIsVdd |-> BitOf(pkgOtpts, rghtHndSwtchIsVddBP) = 1,
     ftSwIsEnbld |-> BitOf(pkgOtpts, ftSwtchIsEnbldBP) = 1,
     ftSwIsOn |-> BitOf(pkgOtpts, ftSwtchIsOnBP) = 1,
     ltchRlsIsOn |-> BitOf(pkgOtpts, LsSwtchLtchRlsIsOnBP) = 1,
     prdCyclIsOn |-> BitOf(pkgOtpts, LsSwtchPrdCyclIsOnBP) = 1]

\* The targets of the specific notifications: a task handle and a function pointer each.
Ntfs == {"BthHndsOnMssd", "TrnOffLtchRls", "TrnOffPrdCycl", "TrnOnLtchRls", "TrnOnPrdCycl"}

\* A notification: xTaskNotify(task, val, eSetValueWithOverwrite) (via "tsk") or
\* a call of the function (via "fn"), with the status word of that moment.
Ntf(s, via, knd, val) ==
    [via |-> via, knd |-> knd, val |-> val, word |-> getLsSwtchOtptsSttsPkgd(s)]

\* Variant: the task is notified with the status word.
ntfyTskAndFn_Word(s, knd) ==
    [s EXCEPT !.ntfd =
        @ \o (IF s.tskToNtfy[knd] THEN <<Ntf(s, "tsk", knd, getLsSwtchOtptsSttsPkgd(s))>> ELSE <<>>)
          \o (IF s.fnWhn[knd] THEN <<Ntf(s, "fn", knd, 0)>> ELSE <<>>)]

\* The tasks related and functions related actions of _ackBthHndsOnMssd and of
\* the four _turnOn/_turnOff methods: the task, if one is set, is notified with
\* the value 0x00, then the function, if one is set, is called.  Both are
\* logged in the object's ntfd.
ntfyTskAndFn(s, knd) ==
    [s EXCEPT !.ntfd =
        @ \o (IF s.tskToNtfy[knd] THEN <<Ntf(s, "tsk", knd, 0)>> ELSE <<>>)
          \o (IF s.fnWhn[knd] THEN <<Ntf(s, "fn", knd, 0)>> ELSE <<>>)]

\* Variant: the acknowledgement is left out.
ackBthHndsOnMssd_None(s) ==
    s

ackBthHndsOnMssd(s) ==
    [ntfyTskAndFn(s, "BthHndsOnMssd") EXCEPT !.mssdAcks = s.mssdAcks + 1]

\* Variant: the latch release is turned off without marking the change.
turnOffLtchRls_NoMark(s) ==
    IF s.ltchRlsIsOn THEN [s EXCEPT !.ltchRlsIsOn = FALSE] ELSE s

turnOffLtchRls(s) ==
    IF s.ltchRlsIsOn
    THEN setLsSwtchOtptsChng([ntfyTskAndFn(s, "TrnOffLtchRls") EXCEPT !.ltchRlsIsOn = FALSE], TRUE)
    ELSE s

\* Variant: productionCycleOn is never turned off.
turnOffPrdCycl_Skip(s) ==
    s

turnOffPrdCycl(s) ==
    IF s.prdCyclIsOn
    THEN setLsSwtchOtptsChng([ntfyTskAndFn(s, "TrnOffPrdCycl") EXCEPT !.prdCyclIsOn = FALSE], TRUE)
    ELSE s

turnOnLtchRls(s) ==
    IF ~s.ltchRlsIsOn
    THEN setLsSwtchOtptsChng([ntfyTskAndFn(s, "TrnOnLtchRls") EXCEPT !.ltchRlsIsOn = TRUE], TRUE)
    ELSE s

\* Variant: productionCycleOn is not turned on.
turnOnPrdCycl_Skip(s) ==
    s

turnOnPrdCycl(s) ==
    IF ~s.prdCyclIsOn
    THEN setLsSwtchOtptsChng([ntfyTskAndFn(s, "TrnOnPrdCycl") EXCEPT !.prdCyclIsOn = TRUE], TRUE)
    ELSE s

\* The hand switches are taken out of service for the cycle (stOffBHPNotFP, foot press accepted).
dsblHndsForCycl(s) ==
    LET offHnd(h) ==
            LET m == mpbSetIsOnDisabled(s.hnd[h], FALSE)
            IN  IF s.hndBhvrCfg[h] THEN mpbDisable(m) ELSE m
    IN  [s EXCEPT !.hnd = [h \in Hnds |-> offHnd(h)]]

\* Variant: both hand switches are enabled, whatever their configuration.
rstrHndsAfterCycl_EnblAll(s) ==
    [s EXCEPT !.hnd = [h \in Hnds |-> mpbEnable(mpbSetIsOnDisabled(s.hnd[h], TRUE))]]

\* The hand switches are put back in service (stEndCycl, cycle time elapsed).
rstrHndsAfterCycl(s) ==
    LET onHnd(h) ==
            LET m == mpbSetIsOnDisabled(s.hnd[h], TRUE)
            IN  IF s.hndBhvrCfg[h] THEN mpbEnable(m) ELSE m
    IN  [s EXCEPT !.hnd = [h \in Hnds |-> onHnd(h)]]

\* Variant: strictly more than the latch release time.
ltchRlsTmUp_Strict(s) ==
    ElapsedMs(s) > s.ltchRlsTtlTm

ltchRlsTmUp(s) ==
    ElapsedMs(s) >= s.ltchRlsTtlTm

\* Variant: strictly more than the production cycle time.
prdCyclTmUp_Strict(s) ==
    ElapsedMs(s) > s.prdCyclTtlTm

prdCyclTmUp(s) ==
    ElapsedMs(s) >= s.prdCyclTtlTm

\* One pass of the automaton; the result is the object and the static pending flag.
fdaOffNotBHP(s, stts, pndng) ==
    LET s1 == IF s.sttChng THEN clrSttChng(clrStatus(s)) ELSE s
        s2 == IF bothHndsOn(stts)
              THEN setSttChng([s1 EXCEPT !.lsSwtchFdaState = stOffBHPNotFP])
              ELSE s1
        s3 == IF s2.sttChng THEN [s2 EXCEPT !.ft = ftEnable(s2.ft)] ELSE s2
    IN  [ls |-> s3, pndng |-> pndng]

\* Variant: "missed" is acknowledged only if the foot switch has not fired.
fdaOffBHPNotFP_AckIfNotPndng(s, stts, pndng) ==
    LET s1 == IF s.sttChng THEN clrSttChng(s) ELSE s
        s2 == [s1 EXCEPT !.ft = ftDisable(s1.ft)]
    IN  IF ~bothHndsOn(stts)
        THEN [ls |-> setSttChng([(IF pndng THEN s2 ELSE ackBthHndsOnMssd(s2))
                                    EXCEPT !.lsSwtchFdaState = stOffNotBHP]),
              pndng |-> pndng]
        ELSE IF pndng
             THEN LET s3 == dsblHndsForCycl(s1)
                      s4 == [s3 EXCEPT !.ft = ftDisable(s3.ft),
                                       !.lsSwtchFdaState = stStrtRlsStrtCycl]
                  IN  [ls |-> setSttChng(s4), pndng |-> FALSE]
             ELSE [ls |-> s1, pndng |-> pndng]

\* Variant: the pending foot press is checked before the hands.
fdaOffBHPNotFP_FtFrst(s, stts, pndng) ==
    LET s1 == IF s.sttChng THEN clrSttChng(s) ELSE s
    IN  IF pndng
        THEN LET s2 == dsblHndsForCycl(s1)
                 s3 == [s2 EXCEPT !.ft = ftDisable(s2.ft),
                                  !.lsSwtchFdaState = stStrtRlsStrtCycl]
             IN  [ls |-> setSttChng(s3), pndng |-> FALSE]
        ELSE IF ~bothHndsOn(stts)
             THEN [ls |-> setSttChng([ackBthHndsOnMssd([s1 EXCEPT !.ft = ftDisable(s1.ft)])
                                         EXCEPT !.lsSwtchFdaState = stOffNotBHP]),
                   pndng |-> pndng]
             ELSE [ls |-> s1, pndng |-> pndng]

fdaOffBHPNotFP(s, stts, pndng) ==
    LET s1 == IF s.sttChng THEN clrSttChng(s) ELSE s
    IN  IF ~bothHndsOn(stts)
        THEN [ls |-> setSttChng([ackBthHndsOnMssd([s1 EXCEPT !.ft = ftDisable(s1.ft)])
                                    EXCEPT !.lsSwtchFdaState = stOffNotBHP]),
              pndng |-> pndng]
        ELSE IF pndng
             THEN LET s2 == dsblHndsForCycl(s1)
                      s3 == [s2 EXCEPT !.ft = ftDisable(s2.ft),
                                       !.lsSwtchFdaState = stStrtRlsStrtCycl]
                  IN  [ls |-> setSttChng(s3), pndng |-> FALSE]
             ELSE [ls |-> s1, pndng |-> pndng]

fdaStrtRlsStrtCycl(s, pndng) ==
    LET s1 == IF s.sttChng
              THEN clrSttChng([s EXCEPT !.prdCyclTmrStrt = s.curTimeMs])
              ELSE s
        s2 == turnOnPrdCycl(turnOnLtchRls(s1))
    IN  [ls |-> setSttChng([s2 EXCEPT !.lsSwtchFdaState = stEndRls]), pndng |-> pndng]

\* Variant: the state is not left when the latch release time is up.
fdaEndRls_Stays(s, pndng) ==
    LET s1 == IF s.sttChng THEN clrSttChng(s) ELSE s
    IN  IF ltchRlsTmUp(s1)
        THEN [ls |-> turnOffLtchRls(s1), pndng |-> pndng]
        ELSE [ls |-> s1, pndng |-> pndng]

fdaEndRls(s, pndng) ==
    LET s1 == IF s.sttChng THEN clrSttChng(s) ELSE s
    IN  IF ltchRlsTmUp(s1)
        THEN [ls |-> setSttChng([turnOffLtchRls(s1) EXCEPT !.lsSwtchFdaState = stEndCycl]),
              pndng |-> pndng]
        ELSE [ls |-> s1, pndng |-> pndng]

\* Variant: the end of the cycle leads to the next state of the enumeration.
fdaEndCycl_ToEmrgncy(s, pndng) ==
    LET s1 == IF s.sttChng THEN clrSttChng(s) ELSE s
    IN  IF prdCyclTmUp(s1)
        THEN [ls |-> setSttChng([rstrHndsAfterCycl(turnOffPrdCycl(s1))
                                    EXCEPT !.lsSwtchFdaState = stEmrgncyExcpHndl]),
              pndng |-> pndng]
        ELSE [ls |-> s1, pndng |-> pndng]

fdaEndCycl(s, pndng) ==
    LET s1 == IF s.sttChng THEN clrSttChng(s) ELSE s
    IN  IF prdCyclTmUp(s1)
        THEN [ls |-> setSttChng([rstrHndsAfterCycl(turnOffPrdCycl(s1))
                                    EXCEPT !.lsSwtchFdaState = stOffNotBHP]),
              pndng |-> pndng]
        ELSE [ls |-> s1, pndng |-> pndng]

\* Variant: the state is left for stOffNotBHP once its entry code has run.
fdaEmrgncyExcpHndl_Exit(s, pndng) ==
    [ls |-> IF s.sttChng
            THEN clrSttChng(s)
            ELSE setSttChng([s EXCEPT !.lsSwtchFdaState = stOffNotBHP]),
     pndng |-> pndng]

fdaEmrgncyExcpHndl(s, pndng) ==
    [ls |-> IF s.sttChng THEN clrSttChng(s) ELSE s, pndng |-> pndng]

updFdaState(s, stts, pndng) ==
    CASE s.lsSwtchFdaState = stOffNotBHP -> fdaOffNotBHP(s, stts, pndng)
      [] s.lsSwtchFdaState = stOffBHPNotFP -> fdaOffBHPNotFP(s, stts, pndng)
      [] s.lsSwtchFdaState = stStrtRlsStrtCycl -> fdaStrtRlsStrtCycl(s, pndng)
      [] s.lsSwtchFdaState = stEndRls -> fdaEndRls(s, pndng)
      [] s.lsSwtchFdaState = stEndCycl -> fdaEndCycl(s, pndng)
      [] s.lsSwtchFdaState = stEmrgncyExcpHndl -> fdaEmrgncyExcpHndl(s, pndng)
      [] OTHER -> [ls |-> s, pndng |-> pndng]

\* The poll timer's callback at time t: snapshot, time base, one automaton pass,
\* then the general output-change notification.
\* The end of lsSwtchPollCb: if the outputs changed and a task is set, it is
\* notified with the status word and setLsSwtchOtptsChng(false) is called.
ntfyLsSwtchOtptsChng(s) ==
    IF s.lsSwtchOtptsChng /\ s.tskToNtfyLsSwtchOtptsChng
    THEN setLsSwtchOtptsChng(s, FALSE)
    ELSE s

\* The notification the end of lsSwtchPollCb sends.
ntfyLsSwtchOtptsChng_ntfd(s) ==
    IF s.lsSwtchOtptsChng /\ s.tskToNtfyLsSwtchOtptsChng
    THEN <<Ntf(s, "tsk", "LsSwtchOtptsChng", getLsSwtchOtptsSttsPkgd(s))>>
    ELSE <<>>

\* mssdAcks and ntfd log what the FDA pass of this run of the callback does; the
\* result's ntfd is every notification of the run, in the order sent.
lsSwtchPollCb(s, pndng, t) ==
    LET stts == getUndrlSwtchStts(s)
        r == updFdaState([s EXCEPT !.curTimeMs = t, !.mssdAcks = 0, !.ntfd = <<>>], stts, pndng)
    IN  [ls |-> ntfyLsSwtchOtptsChng(r.ls),
         pndng |-> r.pndng,
         ntfd |-> r.ls.ntfd \o ntfyLsSwtchOtptsChng_ntfd(r.ls)]

\* Variant: the FDA is sent back to stOffNotBHP without clrStatus.
resetFda_NoClrStatus(s) ==
    [setSttChng(s) EXCEPT !.lsSwtchFdaState = stOffNotBHP]

resetFda(s) ==
    [setSttChng(clrStatus(s)) EXCEPT !.lsSwtchFdaState = stOffNotBHP]

\* _cnfgHndSwtch, the isEnabled part of the new configuration.
cnfgHndSwtch(s, h, newIsEnbld) ==
    IF s.hnd[h].isEnabled # newIsEnbld
    THEN [s EXCEPT !.hnd[h] = IF newIsEnbld THEN mpbEnable(s.hnd[h]) ELSE mpbDisable(s.hnd[h]),
                   !.hndBhvrCfg[h] = newIsEnbld]
    ELSE s

setLtchRlsTtlTm(s, newVal) ==
    IF s.ltchRlsTtlTm # newVal /\ newVal > 0 /\ newVal <= s.prdCyclTtlTm
    THEN [s EXCEPT !.ltchRlsTtlTm = newVal]
    ELSE s

\* The value setLtchRlsTtlTm returns.
setLtchRlsTtlTm_rtrn(s, newVal) ==
    IF s.ltchRlsTtlTm # newVal
    THEN newVal > 0 /\ newVal <= s.prdCyclTtlTm
    ELSE TRUE

\* Variant: the new production cycle time is not compared with the latch release time.
setPrdCyclTtlTm_NoLwLmt(s, newVal) ==
    IF s.prdCyclTtlTm # newVal /\ newVal > 0
    THEN [s EXCEPT !.prdCyclTtlTm = newVal]
    ELSE s

setPrdCyclTtlTm(s, newVal) ==
    IF s.prdCyclTtlTm # newVal /\ newVal > 0 /\ newVal >= s.ltchRlsTtlTm
    THEN [s EXCEPT !.prdCyclTtlTm = newVal]
    ELSE s

\* The value setPrdCyclTtlTm returns.
setPrdCyclTtlTm_rtrn(s, newVal) ==
    IF s.prdCyclTtlTm # newVal
    THEN newVal > 0 /\ newVal >= s.ltchRlsTtlTm
    ELSE TRUE

\* setTskToNtfyLsSwtchOtptsChng: a task handle (TRUE) or NULL (FALSE).  The task
\* registered before, running, is suspended and forgotten.
\* eTaskState, as eTaskGetState returns it.
eTaskState == {"eRunning", "eReady", "eBlocked", "eSuspended", "eDeleted"}

setTskToNtfy(tskToNtfy, newTaskHandle, taskToNtfyStt) ==
    IF tskToNtfy # newTaskHandle
    THEN LET h1 == IF tskToNtfy /\ taskToNtfyStt # "eSuspended" /\ taskToNtfyStt # "eDeleted"
                   THEN FALSE
                   ELSE tskToNtfy
         IN  IF newTaskHandle THEN newTaskHandle ELSE h1
    ELSE tskToNtfy

setTskToNtfyLsSwtchOtptsChng(s, newTaskHandle, taskToNtfyStt) ==
    [s EXCEPT !.tskToNtfyLsSwtchOtptsChng = setTskToNtfy(@, newTaskHandle, taskToNtfyStt)]

\* setTskToNtfyBthHndsOnMssd, setTskToNtfyTrnOffLtchRls, setTskToNtfyTrnOffPrdCycl,
\* setTskToNtfyTrnOnLtchRls, setTskToNtfyTrnOnPrdCycl.
setTskToNtfyKnd(s, knd, newTaskHandle, taskToNtfyStt) ==
    [s EXCEPT !.tskToNtfy[knd] = setTskToNtfy(@, newTaskHandle, taskToNtfyStt)]

\* setFnWhnBthHndsOnMssd, setFnWhnTrnOffLtchRlsPtr, setFnWhnTrnOffPrdCyclPtr,
\* setFnWhnTrnOnLtchRlsPtr, setFnWhnTrnOnPrdCyclPtr (FALSE: nullptr).
setFnWhn(s, knd, newFnWhn) ==
    IF s.fnWhn[knd] # newFnWhn THEN [s EXCEPT !.fnWhn[knd] = newFnWhn] ELSE s

\* The object as the constructor leaves it, the underlying switches begun.
\* hndCfg: the swtchIsEnbld of the two hand switches' configurations.
LsSwtchCtor(hndCfg, ltchRlsActvTm, prdCyclActvTm) ==
    [hnd |-> [h \in Hnds |->
                [isEnabled |-> IF h = "rght" THEN FALSE ELSE hndCfg[h],
                 isOn |-> FALSE, isVoided |-> FALSE, isOnDisabled |-> FALSE]],
     ft |-> [isEnabled |-> TRUE, isOn |-> FALSE],
     hndBhvrCfg |-> hndCfg,
     curTimeMs |-> 0,
     ltchRlsIsOn |-> FALSE,
     ltchRlsTtlTm |-> ltchRlsActvTm,
     prdCyclIsOn |-> FALSE,
     prdCyclTmrStrt |-> 0,
     prdCyclTtlTm |-> prdCyclActvTm,
     lsSwtchFdaState |-> stOffNotBHP,
     lsSwtchOtptsChng |-> FALSE,
     lsSwtchOtptsChngCnt |-> 0,
     sttChng |-> TRUE,
     tskToNtfyLsSwtchOtptsChng |-> FALSE,
     tskToNtfy |-> [k \in Ntfs |-> FALSE],
     fnWhn |-> [k \in Ntfs |-> FALSE],
     mssdAcks |-> 0,
     ntfd |-> <<>>]

----------------------------------------------------------------------------
(* The state machine *)

\* No setter call logged, no status word read.
NoWord == [word |-> -1, dcdd |-> {}]

\* The two tasks that call setLsSwtchOtptsChng(true) concurrently.
Clrs == {"c1", "c2"}

\* No call in progress.  sameCore: the concurrent tasks are pinned to one core;
\* pc, reg: each caller's position in setLsSwtchOtptsChng and the value it holds in
\* a register; cnt0: the counter before the calls; flushed: the "set false" call
\* was made; tick: the poll callback in progress, as the values it has read.
NoRace ==
    [sameCore |-> TRUE,
     pc |-> [c \in Clrs |-> "idle"],
     reg |-> [c \in Clrs |-> 0],
     cnt0 |-> 0,
     flushed |-> FALSE,
     tick |-> {}]

\* The program has one object of the class.
NoOthr == [ls |-> <<>>, ftPrssd |-> FALSE]

AuxIdle ==
    /\ cfgLog = <<>>
    /\ cdc = NoWord
    /\ rc = NoRace
    /\ othr = NoOthr

InCycl(s) ==
    s.lsSwtchFdaState \in {stStrtRlsStrtCycl, stEndRls, stEndCycl}

TtlTms == {k * TickUnit : k \in 1..MaxTtl}

\* The object is constructed with a valid working configuration and the task to
\* notify of output changes is registered, as the set-up code does before begin().
Init ==
    /\ \E hndCfg \in [Hnds -> BOOLEAN], a \in TtlTms, b \in TtlTms :
          /\ a <= b
          /\ ls = setTskToNtfyLsSwtchOtptsChng(LsSwtchCtor(hndCfg, a, b), TRUE, "eReady")
    /\ ltchRlsPndng = FALSE
    /\ tickFrom = "none"
    /\ ftPrssdInWndw = FALSE
    /\ preCyclEnbld = NoCycl
    /\ AuxIdle

\* The poll timer fires at time t.
Tick(t) ==
    LET r == lsSwtchPollCb(ls, ltchRlsPndng, t)
        from == ls.lsSwtchFdaState
        to == r.ls.lsSwtchFdaState
    IN  /\ ls' = r.ls
        /\ ltchRlsPndng' = r.pndng
        /\ UNCHANGED auxVars
        /\ tickFrom' = from
        /\ ftPrssdInWndw' = ftPrssdInWndw
        /\ preCyclEnbld' = IF from = stOffBHPNotFP /\ to = stStrtRlsStrtCycl
                           THEN {[h \in Hnds |-> ls.hnd[h].isEnabled]}
                           ELSE IF from = stOffNotBHP THEN NoCycl ELSE preCyclEnbld

PollTick ==
    \E d \in 1..MaxTickStep : Tick((ls.curTimeMs + d * TickUnit) % ULongMod)

\* A hand button is pressed long enough for its enabled switch to turn on.
HndPress(h) ==
    /\ ls.hnd[h].isEnabled /\ ~ls.hnd[h].isOn /\ ~ls.hnd[h].isVoided
    /\ ls' = [ls EXCEPT !.hnd[h].isOn = TRUE]
    /\ UNCHANGED auxVars
    /\ tickFrom' = "none"
    /\ UNCHANGED <<ltchRlsPndng, ftPrssdInWndw, preCyclEnbld>>

\* A hand button is released.
HndRelease(h) ==
    /\ ls.hnd[h].isEnabled /\ (ls.hnd[h].isOn \/ ls.hnd[h].isVoided)
    /\ ls' = [ls EXCEPT !.hnd[h].isOn = FALSE, !.hnd[h].isVoided = FALSE]
    /\ UNCHANGED auxVars
    /\ tickFrom' = "none"
    /\ UNCHANGED <<ltchRlsPndng, ftPrssdInWndw, preCyclEnbld>>

\* A hand button is held beyond its void time.
HndVoid(h) ==
    /\ ls.hnd[h].isEnabled /\ ls.hnd[h].isOn
    /\ ls' = [ls EXCEPT !.hnd[h].isOn = FALSE, !.hnd[h].isVoided = TRUE]
    /\ UNCHANGED auxVars
    /\ tickFrom' = "none"
    /\ UNCHANGED <<ltchRlsPndng, ftPrssdInWndw, preCyclEnbld>>

\* The enabled foot switch turns on: its fnWhnTrnOn, _setLtchRlsPndng, runs.
FtPress ==
    /\ ls.ft.isEnabled /\ ~ls.ft.isOn
    /\ ls' = [ls EXCEPT !.ft.isOn = TRUE]
    /\ ltchRlsPndng' = TRUE
    /\ ftPrssdInWndw' = (ftPrssdInWndw \/ (ls.lsSwtchFdaState = stOffBHPNotFP
                                             /\ ls.hnd["lft"].isOn /\ ls.hnd["rght"].isOn))
    /\ UNCHANGED auxVars
    /\ tickFrom' = "none"
    /\ UNCHANGED preCyclEnbld

\* The single-service foot switch turns off again.
FtRelease ==
    /\ ls.ft.isOn
    /\ ls' = [ls EXCEPT !.ft.isOn = FALSE]
    /\ UNCHANGED auxVars
    /\ tickFrom' = "none"
    /\ UNCHANGED <<ltchRlsPndng, ftPrssdInWndw, preCyclEnbld>>

ResetFda ==
    /\ ls' = resetFda(ls)
    /\ UNCHANGED auxVars
    /\ tickFrom' = "none"
    /\ preCyclEnbld' = NoCycl
    /\ UNCHANGED <<ltchRlsPndng, ftPrssdInWndw>>

ClrStatus ==
    /\ ls' = clrStatus(ls)
    /\ UNCHANGED auxVars
    /\ tickFrom' = "none"
    /\ UNCHANGED <<ltchRlsPndng, ftPrssdInWndw, preCyclEnbld>>

CnfgHndSwtch(h) ==
    \E newIsEnbld \in BOOLEAN :
        /\ ls' = cnfgHndSwtch(ls, h, newIsEnbld)
        /\ UNCHANGED auxVars
        /\ tickFrom' = "none"
        /\ preCyclEnbld' = IF InCycl(ls) THEN NoCycl ELSE preCyclEnbld
        /\ UNCHANGED <<ltchRlsPndng, ftPrssdInWndw>>

SetLtchRlsTtlTm ==
    \E newVal \in TtlTms \cup {0} :
        /\ ls' = setLtchRlsTtlTm(ls, newVal)
        /\ UNCHANGED auxVars
        /\ tickFrom' = "none"
        /\ UNCHANGED <<ltchRlsPndng, ftPrssdInWndw, preCyclEnbld>>

SetPrdCyclTtlTm ==
    \E newVal \in TtlTms \cup {0} :
        /\ ls' = setPrdCyclTtlTm(ls, newVal)
        /\ UNCHANGED auxVars
        /\ tickFrom' = "none"
        /\ UNCHANGED <<ltchRlsPndng, ftPrssdInWndw, preCyclEnbld>>

Next ==
    \/ PollTick
    \/ \E h \in Hnds : HndPress(h)
    \/ \E h \in Hnds : HndRelease(h)
    \/ \E h \in Hnds : HndVoid(h)
    \/ FtPress
    \/ FtRelease
    \/ ResetFda
    \/ ClrStatus
    \/ \E h \in Hnds : CnfgHndSwtch(h)
    \/ SetLtchRlsTtlTm
    \/ SetPrdCyclTtlTm

Spec == Init /\ [][Next]_vars

----------------------------------------------------------------------------
(* The end-to-end scenario: the default working configuration, both hands on  *)
(* at t = 0, the foot press observed at t = 50, the poll timer firing at      *)
(* t = 0, 50, 51, 1551 and 6051 and possibly at other instants in between.    *)
(* t is counted from ScnT0, the time of the tick that sees both hands on.     *)

\* lsSwtchSwCfg_t's default times and the shortest poll period.
LtchRlsActvTmDflt == 1500
PrdCyclActvTmDflt == 6000
MinPollDelay == 20

\* The time base's value at the scenario's t = 0.
ScnT0 == 60

\* The number of poll periods between the first tick and t = 0, at most.
MaxWarmUp == 2

ScnReqd == {0, 50, 51, 1551, 6051}
ScnOptl == {-20, 20, 40, 500, 1000, 1550, 3000, 6000, 6050, 6100}

ScnAt(t) == ScnT0 + t

InitScn ==
    /\ \E hndCfg \in [Hnds -> BOOLEAN] :
          ls = setTskToNtfyLsSwtchOtptsChng(
                  LsSwtchCtor(hndCfg, LtchRlsActvTmDflt, PrdCyclActvTmDflt), TRUE, "eReady")
    /\ ltchRlsPndng = FALSE
    /\ tickFrom = "none"
    /\ ftPrssdInWndw = FALSE
    /\ preCyclEnbld = NoCycl
    /\ AuxIdle

\* The first tick after begin(), some poll periods before t = 0.
ScnFrstTick ==
    /\ ls.curTimeMs = 0
    /\ \E k \in 1..MaxWarmUp : Tick(ScnAt(0) - k * MinPollDelay)

\* The hands are pressed before t = 0 and stay pressed; an enabled hand switch
\* is pressed again once the cycle is over.
ScnHndPress(h) ==
    /\ \/ 0 < ls.curTimeMs /\ ls.curTimeMs < ScnAt(0)
       \/ ls.curTimeMs >= ScnAt(6051)
    /\ HndPress(h)

\* The foot switch fires between the tick before t = 50 and the tick at t = 50.
ScnFtPress ==
    /\ ScnAt(0) <= ls.curTimeMs /\ ls.curTimeMs < ScnAt(50)
    /\ FtPress

\* The poll timer fires at the next instant of the scenario, or at a later one
\* if no instant the scenario requires is skipped.
ScnTick ==
    \E t \in ScnReqd \cup ScnOptl :
        /\ 0 < ls.curTimeMs /\ ls.curTimeMs < ScnAt(t)
        /\ \A q \in ScnReqd : ~(ls.curTimeMs < ScnAt(q) /\ q < t)
        /\ t = 0 => (ls.hnd["lft"].isOn /\ ls.hnd["rght"].isOn)
        /\ t = 50 => ltchRlsPndng
        /\ (t < 50 /\ t > 0) => ~ltchRlsPndng
        /\ Tick(ScnAt(t))

NextScn ==
    \/ ScnFrstTick
    \/ \E h \in Hnds : ScnHndPress(h)
    \/ ScnFtPress
    \/ ScnTick

SpecScn == InitScn /\ [][NextScn]_vars

----------------------------------------------------------------------------
(* The time setters on their own: any constructed object, any sequence of     *)
(* setLtchRlsTtlTm and setPrdCyclTtlTm calls, the last calls kept in cfgLog.   *)

\* The times tried are 0..MaxCfgTm, and cfgLog keeps the last MaxCfgLog calls.
MaxCfgTm == 3
MaxCfgLog == 3

CfgTms == 0..MaxCfgTm

\* The default constructor builds nothing: every member keeps its initializer
\* (both times 0).
LsSwtchDfltCtor ==
    LsSwtchCtor([h \in Hnds |-> TRUE], 0, 0)

\* Either constructor; lsSwtchWrkngCnfg is stored as it comes.
InitCfg ==
    /\ \/ ls = LsSwtchDfltCtor
       \/ \E a \in CfgTms, b \in CfgTms : ls = LsSwtchCtor([h \in Hnds |-> TRUE], a, b)
    /\ ltchRlsPndng = FALSE
    /\ tickFrom = "none"
    /\ ftPrssdInWndw = FALSE
    /\ preCyclEnbld = NoCycl
    /\ AuxIdle

CfgLogged(e) ==
    LET l == Append(cfgLog, e)
    IN  IF Len(l) > MaxCfgLog THEN Tail(l) ELSE l

CfgSetLtchRlsTtlTm ==
    \E newVal \in CfgTms :
        /\ ls' = setLtchRlsTtlTm(ls, newVal)
        /\ cfgLog' = CfgLogged([op |-> "setLtchRlsTtlTm", newVal |-> newVal,
                                rtrn |-> setLtchRlsTtlTm_rtrn(ls, newVal),
                                ltchBfr |-> ls.ltchRlsTtlTm, prdBfr |-> ls.prdCyclTtlTm])
        /\ UNCHANGED <<ltchRlsPndng, tickFrom, ftPrssdInWndw, preCyclEnbld, cdc, rc, othr>>

CfgSetPrdCyclTtlTm ==
    \E newVal \in CfgTms :
        /\ ls' = setPrdCyclTtlTm(ls, newVal)
        /\ cfgLog' = CfgLogged([op |-> "setPrdCyclTtlTm", newVal |-> newVal,
                                rtrn |-> setPrdCyclTtlTm_rtrn(ls, newVal),
                                ltchBfr |-> ls.ltchRlsTtlTm, prdBfr |-> ls.prdCyclTtlTm])
        /\ UNCHANGED <<ltchRlsPndng, tickFrom, ftPrssdInWndw, preCyclEnbld, cdc, rc, othr>>

NextCfg ==
    \/ CfgSetLtchRlsTtlTm
    \/ CfgSetPrdCyclTtlTm

SpecCfg == InitCfg /\ [][NextCfg]_vars

----------------------------------------------------------------------------
(* The change notifier: the interlock run with or without a task to notify,   *)
(* and a caller of the public setLsSwtchOtptsChng.                            *)

InitNtf ==
    /\ \E tsk \in BOOLEAN :
          ls = setTskToNtfyLsSwtchOtptsChng(
                  LsSwtchCtor([h \in Hnds |-> TRUE], TickUnit, MaxTtl * TickUnit), tsk, "eReady")
    /\ ltchRlsPndng = FALSE
    /\ tickFrom = "none"
    /\ ftPrssdInWndw = FALSE
    /\ preCyclEnbld = NoCycl
    /\ AuxIdle

SetLsSwtchOtptsChng ==
    \E newLsSwtchOtptsChng \in BOOLEAN :
        /\ ls' = setLsSwtchOtptsChng(ls, newLsSwtchOtptsChng)
        /\ tickFrom' = IF newLsSwtchOtptsChng THEN "setTrue"
                        ELSE IF ls.lsSwtchOtptsChngCnt = 0 THEN "setFalseAtZero"
                        ELSE "setFalse"
        /\ UNCHANGED auxVars
        /\ UNCHANGED <<ltchRlsPndng, ftPrssdInWndw, preCyclEnbld>>

NextNtf ==
    \/ PollTick
    \/ \E h \in Hnds : HndPress(h)
    \/ \E h \in Hnds : HndRelease(h)
    \/ \E h \in Hnds : HndVoid(h)
    \/ FtPress
    \/ FtRelease
    \/ ResetFda
    \/ SetLsSwtchOtptsChng

SpecNtf == InitNtf /\ [][NextNtf]_vars

----------------------------------------------------------------------------
(* Concurrent callers.  Every critical section of the class is entered on a   *)
(* portMUX_TYPE that is a local variable of the function: taskENTER_CRITICAL   *)
(* then disables the interrupts of the calling core and takes a lock no other *)
(* call shares.  Two tasks on one core exclude each other; two tasks on the   *)
(* two cores of the ESP32 do not, and run memory access by memory access.     *)

RECURSIVE Marked(_, _)
\* The object after n uncleared setLsSwtchOtptsChng(true) calls.
Marked(s, n) ==
    IF n = 0 THEN s ELSE Marked(setLsSwtchOtptsChng(s, TRUE), n - 1)

InitRcNtf ==
    /\ \E same \in BOOLEAN, c0 \in 0..(CntMod - 3) :
          /\ ls = Marked(LsSwtchCtor([h \in Hnds |-> TRUE], LtchRlsActvTmDflt, PrdCyclActvTmDflt), c0)
          /\ rc = [NoRace EXCEPT !.sameCore = same, !.cnt0 = c0]
    /\ ltchRlsPndng = FALSE
    /\ tickFrom = "none"
    /\ ftPrssdInWndw = FALSE
    /\ preCyclEnbld = NoCycl
    /\ cfgLog = <<>>
    /\ cdc = NoWord
    /\ othr = NoOthr

\* taskENTER_CRITICAL(&mux) of caller c: a caller on the same core must be outside.
RcEnter(c) ==
    /\ rc.pc[c] = "idle"
    /\ rc.sameCore => \A o \in Clrs \ {c} : rc.pc[o] \in {"idle", "done"}
    /\ rc' = [rc EXCEPT !.pc[c] = "ld"]
    /\ UNCHANGED <<ls, ltchRlsPndng, tickFrom, ftPrssdInWndw, preCyclEnbld, cfgLog, cdc, othr>>

\* ++_lsSwtchOtptsChngCnt, the load.
RcLoadCnt(c) ==
    /\ rc.pc[c] = "ld"
    /\ rc' = [rc EXCEPT !.pc[c] = "st", !.reg[c] = ls.lsSwtchOtptsChngCnt]
    /\ UNCHANGED <<ls, ltchRlsPndng, tickFrom, ftPrssdInWndw, preCyclEnbld, cfgLog, cdc, othr>>

\* ++_lsSwtchOtptsChngCnt, the store.
RcStoreCnt(c) ==
    /\ rc.pc[c] = "st"
    /\ ls' = [ls EXCEPT !.lsSwtchOtptsChngCnt = (rc.reg[c] + 1) % CntMod]
    /\ rc' = [rc EXCEPT !.pc[c] = "tst"]
    /\ UNCHANGED <<ltchRlsPndng, tickFrom, ftPrssdInWndw, preCyclEnbld, cfgLog, cdc, othr>>

\* if(_lsSwtchOtptsChngCnt), the load.
RcTestCnt(c) ==
    /\ rc.pc[c] = "tst"
    /\ rc' = [rc EXCEPT !.pc[c] = "flg", !.reg[c] = ls.lsSwtchOtptsChngCnt]
    /\ UNCHANGED <<ls, ltchRlsPndng, tickFrom, ftPrssdInWndw, preCyclEnbld, cfgLog, cdc, othr>>

\* _lsSwtchOtptsChng = true or false, then taskEXIT_CRITICAL(&mux).
RcStoreFlg(c) ==
    /\ rc.pc[c] = "flg"
    /\ ls' = [ls EXCEPT !.lsSwtchOtptsChng = (rc.reg[c] # 0)]
    /\ rc' = [rc EXCEPT !.pc[c] = "done"]
    /\ UNCHANGED <<ltchRlsPndng, tickFrom, ftPrssdInWndw, preCyclEnbld, cfgLog, cdc, othr>>

\* Both calls have returned: setLsSwtchOtptsChng(false) is called, alone.
RcSetFalse ==
    /\ \A c \in Clrs : rc.pc[c] = "done"
    /\ ~rc.flushed
    /\ ls' = setLsSwtchOtptsChng(ls, FALSE)
    /\ rc' = [rc EXCEPT !.flushed = TRUE]
    /\ UNCHANGED <<ltchRlsPndng, tickFrom, ftPrssdInWndw, preCyclEnbld, cfgLog, cdc, othr>>

NextRcNtf ==
    \/ \E c \in Clrs : RcEnter(c)
    \/ \E c \in Clrs : RcLoadCnt(c)
    \/ \E c \in Clrs : RcStoreCnt(c)
    \/ \E c \in Clrs : RcTestCnt(c)
    \/ \E c \in Clrs : RcStoreFlg(c)
    \/ RcSetFalse

SpecRcNtf == InitRcNtf /\ [][NextRcNtf]_vars

\* resetFda called from a task while the poll timer runs in the timer service task.
InitRcRst ==
    /\ \E same \in BOOLEAN, a \in TtlTms, b \in TtlTms :
          /\ a <= b
          /\ ls = setTskToNtfyLsSwtchOtptsChng(LsSwtchCtor([h \in Hnds |-> TRUE], a, b), TRUE, "eReady")
          /\ rc = [NoRace EXCEPT !.sameCore = same]
    /\ ltchRlsPndng = FALSE
    /\ tickFrom = "none"
    /\ ftPrssdInWndw = FALSE
    /\ preCyclEnbld = NoCycl
    /\ cfgLog = <<>>
    /\ cdc = NoWord
    /\ othr = NoOthr

\* lsSwtchPollCb up to the switch of _updFdaState: the snapshot and the time are
\* taken and the FDA state is read to select the case to run.
RcTickDispatch ==
    /\ rc.tick = {}
    /\ \E d \in 1..MaxTickStep :
          ls' = [ls EXCEPT !.curTimeMs = (ls.curTimeMs + d * TickUnit) % ULongMod,
                           !.ntfd = <<>>]
    /\ rc' = [rc EXCEPT !.tick = {[stts |-> getUndrlSwtchStts(ls), st |-> ls.lsSwtchFdaState]}]
    /\ tickFrom' = "none"
    /\ UNCHANGED <<ltchRlsPndng, ftPrssdInWndw, preCyclEnbld, cfgLog, cdc, othr>>

\* The rest of lsSwtchPollCb: the selected case runs on the object as it is now
\* (it writes _lsSwtchFdaState only to change it), then the notification.
RcTickRun ==
    \E d \in rc.tick :
        LET r == updFdaState([ls EXCEPT !.lsSwtchFdaState = d.st, !.mssdAcks = 0], d.stts, ltchRlsPndng)
            s1 == IF r.ls.lsSwtchFdaState = d.st
                  THEN [r.ls EXCEPT !.lsSwtchFdaState = ls.lsSwtchFdaState]
                  ELSE r.ls
            s2 == ntfyLsSwtchOtptsChng(s1)
        IN  /\ ls' = s2
            /\ ltchRlsPndng' = r.pndng
            /\ rc' = [rc EXCEPT !.tick = {}]
            /\ tickFrom' = IF tickFrom = "resetFdaInTick" THEN "resetFdaTickDone" ELSE d.st
            /\ UNCHANGED <<ftPrssdInWndw, preCyclEnbld, cfgLog, cdc, othr>>

\* resetFda, whole: a tick in progress on the same core excludes it.
RcResetFda ==
    /\ rc.sameCore => rc.tick = {}
    /\ ls' = resetFda(ls)
    /\ tickFrom' = IF rc.tick = {} THEN "resetFda" ELSE "resetFdaInTick"
    /\ UNCHANGED <<ltchRlsPndng, ftPrssdInWndw, preCyclEnbld, auxVars>>

NextRcRst ==
    \/ RcTickDispatch
    \/ RcTickRun
    \/ \E h \in Hnds : HndPress(h)
    \/ \E h \in Hnds : HndRelease(h)
    \/ FtPress
    \/ FtRelease
    \/ RcResetFda

SpecRcRst == InitRcRst /\ [][NextRcRst]_vars

----------------------------------------------------------------------------
(* The notifications: the interlock run with the tasks to notify all set or   *)
(* none, the functions all set or none, and a supervisor that calls resetFda  *)
(* and clrStatus.                                                             *)

InitCb ==
    /\ \E tsks \in BOOLEAN, fns \in BOOLEAN :
          ls = [setTskToNtfyLsSwtchOtptsChng(
                    LsSwtchCtor([h \in Hnds |-> TRUE], TickUnit, MaxTtl * TickUnit), tsks, "eReady")
                  EXCEPT !.tskToNtfy = [k \in Ntfs |-> tsks],
                         !.fnWhn = [k \in Ntfs |-> fns]]
    /\ ltchRlsPndng = FALSE
    /\ tickFrom = "none"
    /\ ftPrssdInWndw = FALSE
    /\ preCyclEnbld = NoCycl
    /\ AuxIdle

\* resetFda; ntfd logs what this call does.
CbResetFda ==
    /\ ls' = resetFda([ls EXCEPT !.ntfd = <<>>])
    /\ tickFrom' = "resetFda"
    /\ preCyclEnbld' = NoCycl
    /\ UNCHANGED <<ltchRlsPndng, ftPrssdInWndw, auxVars>>

\* clrStatus; ntfd logs what this call does.
CbClrStatus ==
    /\ ls' = clrStatus([ls EXCEPT !.ntfd = <<>>])
    /\ tickFrom' = "clrStatus"
    /\ UNCHANGED <<ltchRlsPndng, ftPrssdInWndw, preCyclEnbld, auxVars>>

NextCb ==
    \/ PollTick
    \/ \E h \in Hnds : HndPress(h)
    \/ \E h \in Hnds : HndRelease(h)
    \/ FtPress
    \/ FtRelease
    \/ CbResetFda
    \/ CbClrStatus

SpecCb == InitCb /\ [][NextCb]_vars

----------------------------------------------------------------------------
(* The tasks to notify set and unset while the interlock runs. The state of   *)
(* the task stored so far is whatever the application made it: the setter     *)
(* asks the kernel for it.                                                    *)

InitTsk ==
    /\ ls = LsSwtchCtor([h \in Hnds |-> TRUE], TickUnit, MaxTtl * TickUnit)
    /\ ltchRlsPndng = FALSE
    /\ tickFrom = "none"
    /\ ftPrssdInWndw = FALSE
    /\ preCyclEnbld = NoCycl
    /\ AuxIdle

SetTskToNtfyLsSwtchOtptsChng ==
    \E newTaskHandle \in BOOLEAN, taskToNtfyStt \in eTaskState :
        /\ ls' = setTskToNtfyLsSwtchOtptsChng(ls, newTaskHandle, taskToNtfyStt)
        /\ tickFrom' = IF newTaskHandle THEN "setTsk" ELSE "setTskNullLsSwtchOtptsChng"
        /\ UNCHANGED <<ltchRlsPndng, ftPrssdInWndw, preCyclEnbld, auxVars>>

SetTskToNtfyBthHndsOnMssd ==
    \E newTaskHandle \in BOOLEAN, taskToNtfyStt \in eTaskState :
        /\ ls' = setTskToNtfyKnd(ls, "BthHndsOnMssd", newTaskHandle, taskToNtfyStt)
        /\ tickFrom' = IF newTaskHandle THEN "setTsk" ELSE "setTskNullBthHndsOnMssd"
        /\ UNCHANGED <<ltchRlsPndng, ftPrssdInWndw, preCyclEnbld, auxVars>>

NextTsk ==
    \/ PollTick
    \/ \E h \in Hnds : HndPress(h)
    \/ \E h \in Hnds : HndRelease(h)
    \/ FtPress
    \/ FtRelease
    \/ SetTskToNtfyLsSwtchOtptsChng
    \/ SetTskToNtfyBthHndsOnMssd

SpecTsk == InitTsk /\ [][NextTsk]_vars

----------------------------------------------------------------------------
(* The emergency state.  No method of the class writes stEmrgncyExcpHndl: the *)
(* FDA state is a protected member, and it is the integrating class that      *)
(* writes it when it receives its emergency signal.                           *)

\* The integrating class takes the FDA to stEmrgncyExcpHndl, the state
\* change flagged or not.
EmrgncyExcp ==
    /\ ls.lsSwtchFdaState # stEmrgncyExcpHndl
    /\ \E sttChng \in BOOLEAN :
          ls' = [ls EXCEPT !.lsSwtchFdaState = stEmrgncyExcpHndl, !.sttChng = sttChng]
    /\ tickFrom' = "emrgncyExcp"
    /\ UNCHANGED <<ltchRlsPndng, ftPrssdInWndw, preCyclEnbld, auxVars>>

NextEmr ==
    \/ PollTick
    \/ \E h \in Hnds : HndPress(h)
    \/ \E h \in Hnds : HndRelease(h)
    \/ FtPress
    \/ FtRelease
    \/ CbResetFda
    \/ CbClrStatus
    \/ EmrgncyExcp

SpecEmr == InitTsk /\ [][NextEmr]_vars

----------------------------------------------------------------------------
(* A consumer task that reads the status word while the poll callback runs.   *)
(* Here ls holds the status snapshot too (undrlSwtchStts: _lftHndSwtchStts,   *)
(* _rghtHndSwtchStts, _ftSwtchStts).  The tick that starts the cycle is split *)
(* between _turnOnLtchRls and _turnOnPrdCycl; rc.tick marks it in progress.   *)
(* The callback's critical section is taken on a local spinlock: it keeps out *)
(* a consumer on the same core (rc.sameCore), not one on the other core.      *)

\* _getUndrlSwtchStts(): the snapshot members are written.
RdGetUndrlSwtchStts(s) ==
    [s EXCEPT !.undrlSwtchStts = getUndrlSwtchStts(s)]

InitRd ==
    /\ \E same \in BOOLEAN :
          /\ ls = setTskToNtfyLsSwtchOtptsChng(
                      LsSwtchCtor([h \in Hnds |-> TRUE], TickUnit, MaxTtl * TickUnit), TRUE, "eReady")
                    @@ [undrlSwtchStts |->
                          [hnd |-> [h \in Hnds |-> [isOn |-> FALSE, isEnabled |-> FALSE, isVoided |-> FALSE]],
                           ft |-> [isOn |-> FALSE, isEnabled |-> FALSE]]]
          /\ rc = [NoRace EXCEPT !.sameCore = same]
    /\ ltchRlsPndng = FALSE
    /\ tickFrom = "none"
    /\ ftPrssdInWndw = FALSE
    /\ preCyclEnbld = NoCycl
    /\ cfgLog = <<>>
    /\ cdc = NoWord
    /\ othr = NoOthr

\* lsSwtchPollCb, whole, in every FDA state but stStrtRlsStrtCycl.  The
\* notification reads the status word, which writes the snapshot again.
RdTick ==
    /\ rc.tick = {}
    /\ ls.lsSwtchFdaState # stStrtRlsStrtCycl
    /\ \E d \in 1..MaxTickStep :
          LET r == lsSwtchPollCb(RdGetUndrlSwtchStts(ls), ltchRlsPndng,
                                 (ls.curTimeMs + d * TickUnit) % ULongMod)
          IN  /\ ls' = IF ntfyLsSwtchOtptsChng_ntfd(updFdaState(
                                 [RdGetUndrlSwtchStts(ls) EXCEPT !.ntfd = <<>>],
                                 getUndrlSwtchStts(ls), ltchRlsPndng).ls) # <<>>
                        THEN RdGetUndrlSwtchStts(r.ls)
                        ELSE r.ls
              /\ ltchRlsPndng' = r.pndng
    /\ tickFrom' = ls.lsSwtchFdaState
    /\ UNCHANGED <<ftPrssdInWndw, preCyclEnbld, auxVars>>

\* lsSwtchPollCb in stStrtRlsStrtCycl up to the return of _turnOnLtchRls.
RdTickLtchRls ==
    /\ rc.tick = {}
    /\ ls.lsSwtchFdaState = stStrtRlsStrtCycl
    /\ \E d \in 1..MaxTickStep :
          LET s0 == [RdGetUndrlSwtchStts(ls)
                       EXCEPT !.curTimeMs = (ls.curTimeMs + d * TickUnit) % ULongMod,
                              !.mssdAcks = 0, !.ntfd = <<>>]
              s1 == IF s0.sttChng
                    THEN clrSttChng([s0 EXCEPT !.prdCyclTmrStrt = s0.curTimeMs])
                    ELSE s0
          IN  ls' = turnOnLtchRls(s1)
    /\ rc' = [rc EXCEPT !.tick = {"turnOnPrdCycl"}]
    /\ tickFrom' = "none"
    /\ UNCHANGED <<ltchRlsPndng, ftPrssdInWndw, preCyclEnbld, cfgLog, cdc, othr>>

\* The rest of that tick: _turnOnPrdCycl, the state change, the notification.
RdTickPrdCycl ==
    /\ rc.tick # {}
    /\ LET s2 == setSttChng([turnOnPrdCycl(ls) EXCEPT !.lsSwtchFdaState = stEndRls])
       IN  ls' = IF ntfyLsSwtchOtptsChng_ntfd(s2) # <<>>
                 THEN ntfyLsSwtchOtptsChng(RdGetUndrlSwtchStts(s2))
                 ELSE s2
    /\ rc' = [rc EXCEPT !.tick = {}]
    /\ tickFrom' = stStrtRlsStrtCycl
    /\ UNCHANGED <<ltchRlsPndng, ftPrssdInWndw, preCyclEnbld, cfgLog, cdc, othr>>

\* The consumer calls getLsSwtchOtptsSttsPkgd(): the snapshot is written, the
\* word getLsSwtchOtptsSttsPkgd(ls) is returned.
RdGetLsSwtchOtptsSttsPkgd ==
    /\ rc.sameCore => rc.tick = {}
    /\ ls' = RdGetUndrlSwtchStts(ls)
    /\ tickFrom' = "getLsSwtchOtptsSttsPkgd"
    /\ UNCHANGED <<ltchRlsPndng, ftPrssdInWndw, preCyclEnbld, auxVars>>

NextRd ==
    \/ RdTick
    \/ RdTickLtchRls
    \/ RdTickPrdCycl
    \/ \E h \in Hnds : HndPress(h)
    \/ \E h \in Hnds : HndRelease(h)
    \/ FtPress
    \/ FtRelease
    \/ RdGetLsSwtchOtptsSttsPkgd

SpecRd == InitRd /\ [][NextRd]_vars

----------------------------------------------------------------------------
(* The hand switches reconfigured while the interlock runs; cfgLog holds the  *)
(* last request made.                                                         *)

ReqCnfgHndSwtch ==
    \E h \in Hnds, newIsEnbld \in BOOLEAN :
        /\ ls' = cnfgHndSwtch(ls, h, newIsEnbld)
        /\ cfgLog' = <<[op |-> "cnfgHndSwtch", hnd |-> h, swtchIsEnbld |-> newIsEnbld,
                        st |-> ls.lsSwtchFdaState]>>
        /\ tickFrom' = "cnfgHndSwtch"
        /\ UNCHANGED <<ltchRlsPndng, ftPrssdInWndw, preCyclEnbld, cdc, rc, othr>>

NextReq ==
    \/ PollTick
    \/ \E h \in Hnds : HndPress(h)
    \/ \E h \in Hnds : HndRelease(h)
    \/ FtPress
    \/ FtRelease
    \/ ReqCnfgHndSwtch

SpecReq == InitTsk /\ [][NextReq]_vars

----------------------------------------------------------------------------
(* begin on its own.  Here ls holds the members begin reads and writes and    *)
(* what it starts: undrlSwtchsPollDelay; undrlBgn, the underlying switches    *)
(* whose polling runs; lsSwtchPollTmrHndl, the poll timer is created (not     *)
(* NULL); lsSwtchPollTmrActv, the poll timer runs.                            *)

Swtchs == {"lft", "rght", "ft"}

\* How far above the minimum the poll delays asked for go.
MaxPollDelayStep == 2

PollDelays == (MinPollDelay - 1)..(MinPollDelay + MaxPollDelayStep)

LsSwtchNotBgn ==
    [undrlSwtchsPollDelay |-> MinPollDelay,
     undrlBgn |-> [x \in Swtchs |-> FALSE],
     lsSwtchPollTmrHndl |-> FALSE,
     lsSwtchPollTmrActv |-> FALSE]

\* The underlying switch's begin: it returns whether it started the polling
\* (undrlOk[x], the library's and the kernel's answer).
undrlBegin(s, x, undrlOk) ==
    [s EXCEPT !.undrlBgn[x] = @ \/ undrlOk[x]]

\* The creation and start of the object's own poll timer; crtOk, strtOk: the
\* kernel's answers to xTimerCreate and xTimerStart.
lsSwtchPollTmrStrt(s, crtOk, strtOk) ==
    IF ~s.lsSwtchPollTmrHndl
    THEN [s EXCEPT !.lsSwtchPollTmrHndl = crtOk,
                   !.lsSwtchPollTmrActv = crtOk /\ strtOk]
    ELSE s

\* Variant: the poll delay asked for is not compared with the underlying
\* switches' poll delay.
begin_NoDelayChk(s, pollDelayMs, undrlOk, crtOk, strtOk) ==
    LET s1 == undrlBegin(s, "lft", undrlOk)
        s2 == undrlBegin(s1, "rght", undrlOk)
        s3 == undrlBegin(s2, "ft", undrlOk)
    IN  IF ~undrlOk["lft"] THEN [ls |-> s1, result |-> FALSE]
        ELSE IF ~undrlOk["rght"] THEN [ls |-> s2, result |-> FALSE]
        ELSE IF ~undrlOk["ft"] THEN [ls |-> s3, result |-> FALSE]
        ELSE [ls |-> lsSwtchPollTmrStrt(s3, crtOk, strtOk), result |-> TRUE]

\* begin(pollDelayMs): the object after the call and the value returned.  The
\* result is the foot switch's begin result when the poll timer part is
\* reached, and that part only ever writes true to it.
begin(s, pollDelayMs, undrlOk, crtOk, strtOk) ==
    IF pollDelayMs >= s.undrlSwtchsPollDelay
    THEN LET s1 == undrlBegin(s, "lft", undrlOk)
             s2 == undrlBegin(s1, "rght", undrlOk)
             s3 == undrlBegin(s2, "ft", undrlOk)
         IN  IF ~undrlOk["lft"] THEN [ls |-> s1, result |-> FALSE]
             ELSE IF ~undrlOk["rght"] THEN [ls |-> s2, result |-> FALSE]
             ELSE IF ~undrlOk["ft"] THEN [ls |-> s3, result |-> FALSE]
             ELSE [ls |-> lsSwtchPollTmrStrt(s3, crtOk, strtOk), result |-> TRUE]
    ELSE [ls |-> s, result |-> FALSE]

setUndrlSwtchsPollDelay(s, newVal) ==
    IF MinPollDelay <= newVal
    THEN [ls |-> [s EXCEPT !.undrlSwtchsPollDelay = newVal], result |-> TRUE]
    ELSE [ls |-> s, result |-> FALSE]

InitBgn ==
    /\ ls = LsSwtchNotBgn
    /\ ltchRlsPndng = FALSE
    /\ tickFrom = "none"
    /\ ftPrssdInWndw = FALSE
    /\ preCyclEnbld = NoCycl
    /\ AuxIdle

\* cfgLog holds the last call: its argument and the value it returned.
Begin ==
    \E pollDelayMs \in PollDelays, undrlOk \in [Swtchs -> BOOLEAN],
       crtOk \in BOOLEAN, strtOk \in BOOLEAN :
        LET r == begin(ls, pollDelayMs, undrlOk, crtOk, strtOk)
        IN  /\ ls' = r.ls
            /\ cfgLog' = <<[op |-> "begin", arg |-> pollDelayMs, result |-> r.result]>>
            /\ tickFrom' = "begin"
            /\ UNCHANGED <<ltchRlsPndng, ftPrssdInWndw, preCyclEnbld, cdc, rc, othr>>

SetUndrlSwtchsPollDelay ==
    \E newVal \in PollDelays :
        LET r == setUndrlSwtchsPollDelay(ls, newVal)
        IN  /\ ls' = r.ls
            /\ cfgLog' = <<[op |-> "setUndrlSwtchsPollDelay", arg |-> newVal, result |-> r.result]>>
            /\ tickFrom' = "setUndrlSwtchsPollDelay"
            /\ UNCHANGED <<ltchRlsPndng, ftPrssdInWndw, preCyclEnbld, cdc, rc, othr>>

NextBgn ==
    \/ Begin
    \/ SetUndrlSwtchsPollDelay

SpecBgn == InitBgn /\ [][NextBgn]_vars

----------------------------------------------------------------------------
(* The status codec on its own: an object showing any combination of the ten  *)
(* flags, a caller that reads the status word and decodes it.                 *)

InitCdc ==
    /\ \E hndStts \in [Hnds -> [isEnabled : BOOLEAN, isOn : BOOLEAN, isVoided : BOOLEAN]],
          ftStts \in [isEnabled : BOOLEAN, isOn : BOOLEAN],
          ltchRls \in BOOLEAN, prdCycl \in BOOLEAN :
          ls = [LsSwtchCtor([h \in Hnds |-> TRUE], LtchRlsActvTmDflt, PrdCyclActvTmDflt)
                  EXCEPT !.hnd = [h \in Hnds |->
                                    [isEnabled |-> hndStts[h].isEnabled, isOn |-> hndStts[h].isOn,
                                     isVoided |-> hndStts[h].isVoided, isOnDisabled |-> FALSE]],
                         !.ft = ftStts,
                         !.ltchRlsIsOn = ltchRls,
                         !.prdCyclIsOn = prdCycl]
    /\ ltchRlsPndng = FALSE
    /\ tickFrom = "none"
    /\ ftPrssdInWndw = FALSE
    /\ preCyclEnbld = NoCycl
    /\ AuxIdle

\* The caller reads the status word.
CdcGetLsSwtchOtptsSttsPkgd ==
    /\ cdc = NoWord
    /\ cdc' = [cdc EXCEPT !.word = getLsSwtchOtptsSttsPkgd(ls)]
    /\ UNCHANGED <<ls, ltchRlsPndng, tickFrom, ftPrssdInWndw, preCyclEnbld, cfgLog, rc, othr>>

\* The caller decodes the word it read.
CdcLssOtptsSttsUnpkg ==
    /\ cdc.word # -1 /\ cdc.dcdd = {}
    /\ cdc' = [cdc EXCEPT !.dcdd = {lssOtptsSttsUnpkg(cdc.word)}]
    /\ UNCHANGED <<ls, ltchRlsPndng, tickFrom, ftPrssdInWndw, preCyclEnbld, cfgLog, rc, othr>>

NextCdc ==
    \/ CdcGetLsSwtchOtptsSttsPkgd
    \/ CdcLssOtptsSttsUnpkg

SpecCdc == InitCdc /\ [][NextCdc]_vars

----------------------------------------------------------------------------
(* Two objects of the class in one program, each with its own hand and foot   *)
(* switches and its own poll timer.  _ltchRlsPndng is a static member: there  *)
(* is one flag for the two objects, and each object's foot switch was given   *)
(* the static _setLtchRlsPndng as its fnWhnTrnOn.  othr.ftPrssd: the second   *)
(* object's foot switch has fired.                                            *)

InitTwo ==
    /\ ls = setTskToNtfyLsSwtchOtptsChng(
                LsSwtchCtor([h \in Hnds |-> TRUE], TickUnit, MaxTtl * TickUnit), TRUE, "eReady")
    /\ othr = [ls |-> ls, ftPrssd |-> FALSE]
    /\ ltchRlsPndng = FALSE
    /\ tickFrom = "none"
    /\ ftPrssdInWndw = FALSE
    /\ preCyclEnbld = NoCycl
    /\ cfgLog = <<>>
    /\ cdc = NoWord
    /\ rc = NoRace

\* The second object's poll timer fires, one time unit after its last tick.
OthrTick ==
    \E r \in {lsSwtchPollCb(othr.ls, ltchRlsPndng, (othr.ls.curTimeMs + TickUnit) % ULongMod)} :
        /\ othr' = [othr EXCEPT !.ls = r.ls]
        /\ ltchRlsPndng' = r.pndng
        /\ tickFrom' = "othr"
        /\ UNCHANGED <<ls, ftPrssdInWndw, preCyclEnbld, cfgLog, cdc, rc>>

\* A hand button of the second object is pressed, or released.
OthrHndPress(h) ==
    /\ othr.ls.hnd[h].isEnabled /\ ~othr.ls.hnd[h].isOn /\ ~othr.ls.hnd[h].isVoided
    /\ othr' = [othr EXCEPT !.ls.hnd[h].isOn = TRUE]
    /\ tickFrom' = "none"
    /\ UNCHANGED <<ls, ltchRlsPndng, ftPrssdInWndw, preCyclEnbld, cfgLog, cdc, rc>>

OthrHndRelease(h) ==
    /\ othr.ls.hnd[h].isEnabled /\ othr.ls.hnd[h].isOn
    /\ othr' = [othr EXCEPT !.ls.hnd[h].isOn = FALSE]
    /\ tickFrom' = "none"
    /\ UNCHANGED <<ls, ltchRlsPndng, ftPrssdInWndw, preCyclEnbld, cfgLog, cdc, rc>>

\* The second object's enabled foot switch turns on: _setLtchRlsPndng runs.
OthrFtPress ==
    /\ othr.ls.ft.isEnabled /\ ~othr.ls.ft.isOn
    /\ othr' = [othr EXCEPT !.ls.ft.isOn = TRUE, !.ftPrssd = TRUE]
    /\ ltchRlsPndng' = TRUE
    /\ tickFrom' = "none"
    /\ UNCHANGED <<ls, ftPrssdInWndw, preCyclEnbld, cfgLog, cdc, rc>>

OthrFtRelease ==
    /\ othr.ls.ft.isOn
    /\ othr' = [othr EXCEPT !.ls.ft.isOn = FALSE]
    /\ tickFrom' = "none"
    /\ UNCHANGED <<ls, ltchRlsPndng, ftPrssdInWndw, preCyclEnbld, cfgLog, cdc, rc>>

NextTwo ==
    \/ PollTick
    \/ \E h \in Hnds : HndPress(h)
    \/ \E h \in Hnds : HndRelease(h)
    \/ FtPress
    \/ FtRelease
    \/ OthrTick
    \/ \E h \in Hnds : OthrHndPress(h)
    \/ \E h \in Hnds : OthrHndRelease(h)
    \/ OthrFtPress
    \/ OthrFtRelease

SpecTwo == InitTwo /\ [][NextTwo]_vars

----------------------------------------------------------------------------
(* The time base over its wrap.  The kernel's tick count is an unsigned       *)
(* counter that wraps; _updCurTimeMs derives _curTimeMs from it at every      *)
(* tick.  cfgLog holds the tick count and, as a number that does not wrap,    *)
(* the milliseconds gone since the tick that recorded the cycle start (0      *)
(* outside a cycle; it is not counted beyond one wrap of the time base).      *)

\* Milliseconds per kernel tick: 1 with the 1 kHz tick of the Arduino core.
portTICK_RATE_MS == 1

updCurTimeMs(xTaskGetTickCount) ==
    xTaskGetTickCount \div portTICK_RATE_MS

InitWrp ==
    /\ \E a \in TtlTms, b \in TtlTms :
          /\ a <= b
          /\ ls = setTskToNtfyLsSwtchOtptsChng(
                      LsSwtchCtor([h \in Hnds |-> TRUE], a, b), TRUE, "eReady")
    /\ cfgLog = <<[op |-> "xTaskGetTickCount", tickCnt |-> 0, elpsd |-> 0]>>
    /\ ltchRlsPndng = FALSE
    /\ tickFrom = "none"
    /\ ftPrssdInWndw = FALSE
    /\ preCyclEnbld = NoCycl
    /\ cdc = NoWord
    /\ rc = NoRace
    /\ othr = NoOthr

\* The poll timer fires d units after the previous tick.
WrpTick ==
    \E d \in 1..MaxTickStep :
        \E now \in {(cfgLog[1].tickCnt + d * TickUnit) % ULongMod} :
            \E r \in {lsSwtchPollCb(ls, ltchRlsPndng, updCurTimeMs(now))} :
                /\ ls' = r.ls
                /\ ltchRlsPndng' = r.pndng
                /\ tickFrom' = ls.lsSwtchFdaState
                /\ cfgLog' = <<[op |-> "xTaskGetTickCount",
                                tickCnt |-> now,
                                elpsd |-> IF ls.lsSwtchFdaState \in {stEndRls, stEndCycl}
                                          THEN IF cfgLog[1].elpsd + d * TickUnit * portTICK_RATE_MS < ULongMod
                                               THEN cfgLog[1].elpsd + d * TickUnit * portTICK_RATE_MS
                                               ELSE ULongMod
                                          ELSE 0]>>
                /\ UNCHANGED <<ftPrssdInWndw, preCyclEnbld, cdc, rc, othr>>

NextWrp ==
    \/ WrpTick
    \/ \E h \in Hnds : HndPress(h)
    \/ \E h \in Hnds : HndRelease(h)
    \/ FtPress
    \/ FtRelease

SpecWrp == InitWrp /\ [][NextWrp]_vars

----------------------------------------------------------------------------
(* Claims *)

FdaSt == ls.lsSwtchFdaState

\* The elapsed time the tick that has just run saw, counted from the cycle start
\* recorded before it.
ElapsedAtTick == (ls'.curTimeMs - ls.prdCyclTmrStrt) % ULongMod

\* C1 (as claimed): latchReleaseOn or productionCycleOn are true only if, at some
\* earlier time, a tick saw both hands on (the FDA was in stOffBHPNotFP) and the
\* foot switch then fired while both hands were on.
C1_OtptsOnlyAfterHndsThenFt ==
    (ls.ltchRlsIsOn \/ ls.prdCyclIsOn) => ftPrssdInWndw

\* C2 (as claimed): the foot switch is enabled only while the FDA is in
\* stOffBHPNotFP, from construction onwards.
C2_FtEnbldOnlyWhenArmed ==
    ls.ft.isEnabled => FdaSt = stOffBHPNotFP

\* C3: the tick that evaluates stStrtRlsStrtCycl records the cycle start time and
\* ends with both outputs on and the FDA in stEndRls; no tick turns on exactly
\* one of the two outputs.
C3_BothOtptsOnTogether ==
    /\ [](tickFrom = stStrtRlsStrtCycl =>
            /\ ls.prdCyclTmrStrt = ls.curTimeMs
            /\ ls.ltchRlsIsOn /\ ls.prdCyclIsOn
            /\ FdaSt = stEndRls)
    /\ [][tickFrom' # "none" =>
            ((~ls.ltchRlsIsOn /\ ls'.ltchRlsIsOn) <=> (~ls.prdCyclIsOn /\ ls'.prdCyclIsOn))]_vars

C3_Witness ==
    tickFrom = stStrtRlsStrtCycl /\ ls.ltchRlsIsOn /\ ls.prdCyclIsOn /\ ls.curTimeMs # 0

\* C4: in the end-to-end scenario the tick at t = 0 arms the foot switch, the
\* tick at t = 50 accepts the foot press, after the tick at t = 51 both outputs
\* are on, after the tick at t = 1551 latchReleaseOn is off and productionCycleOn
\* still on, and after the tick at t = 6051 both are off, the foot switch is
\* disabled and the FDA is in stOffNotBHP.
C4_EndToEndScenario ==
    /\ ls.curTimeMs = ScnAt(0) => (FdaSt = stOffBHPNotFP /\ ls.ft.isEnabled)
    /\ ls.curTimeMs = ScnAt(50) => FdaSt = stStrtRlsStrtCycl
    /\ ls.curTimeMs = ScnAt(51) => (ls.ltchRlsIsOn /\ ls.prdCyclIsOn)
    /\ ls.curTimeMs = ScnAt(1551) => (~ls.ltchRlsIsOn /\ ls.prdCyclIsOn)
    /\ ls.curTimeMs = ScnAt(6051) =>
          /\ ~ls.ltchRlsIsOn /\ ~ls.prdCyclIsOn
          /\ ~ls.ft.isEnabled
          /\ FdaSt = stOffNotBHP

C4_Witness ==
    /\ ls.curTimeMs = ScnAt(6051) /\ tickFrom = stEndCycl
    /\ FdaSt = stOffNotBHP /\ ~ls.prdCyclIsOn /\ ~ls.ltchRlsIsOn /\ ~ls.ft.isEnabled

\* C5: a tick evaluated in stEndRls leaves latchReleaseOn as it is and stays in
\* stEndRls while now - cycleStart < latchReleaseTotalTime; otherwise it ends
\* with latchReleaseOn off and the FDA in stEndCycl, productionCycleOn unchanged.
C5_LtchRlsOffWhenTmUp ==
    [][tickFrom' = stEndRls =>
        IF ElapsedAtTick < ls.ltchRlsTtlTm
        THEN ls'.ltchRlsIsOn = ls.ltchRlsIsOn /\ ls'.lsSwtchFdaState = stEndRls
        ELSE /\ ~ls'.ltchRlsIsOn
             /\ ls'.lsSwtchFdaState = stEndCycl
             /\ ls'.prdCyclIsOn = ls.prdCyclIsOn]_vars

C5_Witness ==
    tickFrom = stEndRls /\ FdaSt = stEndCycl /\ ~ls.ltchRlsIsOn /\ ls.prdCyclIsOn

\* C6 (as claimed): productionCycleOn stays on while now - cycleStart <
\* productionCycleTotalTime, and the first tick of the cycle that sees
\* now - cycleStart >= productionCycleTotalTime turns it off and returns the FDA
\* to stOffNotBHP.
C6_PrdCyclOffAtFirstTickTmUp ==
    [][(tickFrom' \in {stEndRls, stEndCycl} /\ ls.prdCyclIsOn) =>
        IF ElapsedAtTick < ls.prdCyclTtlTm
        THEN ls'.prdCyclIsOn
        ELSE ~ls'.prdCyclIsOn /\ ls'.lsSwtchFdaState = stOffNotBHP]_vars

\* C6 (amended): productionCycleOn stays on while now - cycleStart <
\* productionCycleTotalTime; a tick evaluated in stEndRls never turns it off; the
\* first tick evaluated in stEndCycl that sees now - cycleStart >=
\* productionCycleTotalTime turns it off and returns the FDA to stOffNotBHP.
C6_PrdCyclOffAtFirstEndCyclTick ==
    [][(tickFrom' \in {stEndRls, stEndCycl} /\ ls.prdCyclIsOn) =>
        IF ElapsedAtTick < ls.prdCyclTtlTm \/ tickFrom' = stEndRls
        THEN ls'.prdCyclIsOn /\ ls'.lsSwtchFdaState # stOffNotBHP
        ELSE ~ls'.prdCyclIsOn /\ ls'.lsSwtchFdaState = stOffNotBHP]_vars

\* The tick that turned latchReleaseOn off saw the production time elapsed too
\* and left productionCycleOn on.
C6_Witness ==
    /\ tickFrom = stEndRls /\ FdaSt = stEndCycl /\ ls.prdCyclIsOn
    /\ (ls.curTimeMs - ls.prdCyclTmrStrt) % ULongMod >= ls.prdCyclTtlTm

\* C7: a tick that completes a cycle (stEndCycl to stOffNotBHP), no hand switch
\* having been reconfigured during the cycle, leaves each hand switch's isEnabled
\* as it was when the foot press was accepted.
C7_HndsEnbldRestored ==
    (tickFrom = stEndCycl /\ FdaSt = stOffNotBHP) =>
        \A enbld \in preCyclEnbld : \A h \in Hnds : ls.hnd[h].isEnabled = enbld[h]

C7_Witness ==
    /\ tickFrom = stEndCycl /\ FdaSt = stOffNotBHP
    /\ preCyclEnbld = {[h \in Hnds |-> h = "rght"]}
    /\ ~ls.hnd["lft"].isEnabled /\ ls.hnd["rght"].isEnabled

\* C8 (as claimed): from the acceptance of the foot press until the cycle ends
\* both hand switches are disabled.
C8_HndsDsbldDuringCycl ==
    InCycl(ls) => \A h \in Hnds : ~ls.hnd[h].isEnabled

\* C9: a tick that leaves stOffBHPNotFP for stOffNotBHP acknowledges "both hands
\* missed" exactly once, every other tick not at all, and productionCycleOn is
\* false all through the armed window and after that tick.
C9_MssdAckdOnce ==
    /\ (tickFrom = stOffBHPNotFP /\ FdaSt = stOffNotBHP) => (ls.mssdAcks = 1 /\ ~ls.prdCyclIsOn)
    /\ (tickFrom # "none" /\ ~(tickFrom = stOffBHPNotFP /\ FdaSt = stOffNotBHP)) => ls.mssdAcks = 0
    /\ FdaSt = stOffBHPNotFP => ~ls.prdCyclIsOn

C9_Witness ==
    /\ tickFrom = stOffBHPNotFP /\ FdaSt = stOffNotBHP
    /\ ~ltchRlsPndng /\ ls.mssdAcks = 1 /\ ~ls.prdCyclIsOn

CfgLast == cfgLog[Len(cfgLog)]
CfgPrev == cfgLog[Len(cfgLog) - 1]
CfgPrev2 == cfgLog[Len(cfgLog) - 2]

\* C12 (as claimed): in every state of an object, after either constructor and
\* any sequence of setter calls, 0 < latchReleaseTotalTime <= productionCycleTotalTime.
C12_TtlTmsOrdered ==
    0 < ls.ltchRlsTtlTm /\ ls.ltchRlsTtlTm <= ls.prdCyclTtlTm

\* C13 (as claimed): setLtchRlsTtlTm(v) with v = 0 or v > productionCycleTotalTime
\* and setPrdCyclTtlTm(v) with v = 0 or v < latchReleaseTotalTime return false and
\* leave both times as they were; a call that returns true leaves the requested
\* value stored, and that value is valid.
C13_BadTmRejected ==
    cfgLog # <<>> =>
        LET e == CfgLast
            bad == IF e.op = "setLtchRlsTtlTm"
                   THEN e.newVal = 0 \/ e.newVal > e.prdBfr
                   ELSE e.newVal = 0 \/ e.newVal < e.ltchBfr
            stored == IF e.op = "setLtchRlsTtlTm" THEN ls.ltchRlsTtlTm ELSE ls.prdCyclTtlTm
        IN  /\ bad => (~e.rtrn /\ ls.ltchRlsTtlTm = e.ltchBfr /\ ls.prdCyclTtlTm = e.prdBfr)
            /\ e.rtrn => (stored = e.newVal /\ ~bad)
            /\ stored \in {e.newVal, IF e.op = "setLtchRlsTtlTm" THEN e.ltchBfr ELSE e.prdBfr}

\* C14 (as claimed): for 0 < a <= b, and whatever valid configuration was stored
\* before, setLtchRlsTtlTm(a) and then setPrdCyclTtlTm(b) both return true, and
\* setPrdCyclTtlTm(a - 1) after them returns false and leaves b stored.
C14_SeqAlwaysSucceeds ==
    /\ (/\ Len(cfgLog) >= 2
        /\ CfgPrev.op = "setLtchRlsTtlTm" /\ CfgLast.op = "setPrdCyclTtlTm"
        /\ 0 < CfgPrev.newVal /\ CfgPrev.newVal <= CfgLast.newVal
        /\ 0 < CfgPrev.ltchBfr /\ CfgPrev.ltchBfr <= CfgPrev.prdBfr)
       => (CfgPrev.rtrn /\ CfgLast.rtrn)
    /\ (/\ Len(cfgLog) >= 3
        /\ CfgPrev2.op = "setLtchRlsTtlTm" /\ CfgPrev.op = "setPrdCyclTtlTm"
        /\ CfgLast.op = "setPrdCyclTtlTm"
        /\ 0 < CfgPrev2.newVal /\ CfgPrev2.newVal <= CfgPrev.newVal
        /\ CfgLast.newVal = CfgPrev2.newVal - 1
        /\ 0 < CfgPrev2.ltchBfr /\ CfgPrev2.ltchBfr <= CfgPrev2.prdBfr)
       => (~CfgLast.rtrn /\ ls.prdCyclTtlTm = CfgPrev.newVal)

\* C14 (amended): for 0 < a <= b, setLtchRlsTtlTm(a) returns true exactly when a
\* is the latch release time already stored or a <= the production cycle time
\* stored before the call; when it does, setPrdCyclTtlTm(b) after it returns
\* true and (a, b) is stored, and setPrdCyclTtlTm(a - 1) after both returns false
\* and leaves b stored.
C14_SeqSucceedsIfLtchFits ==
    /\ (/\ Len(cfgLog) >= 2
        /\ CfgPrev.op = "setLtchRlsTtlTm" /\ CfgLast.op = "setPrdCyclTtlTm"
        /\ 0 < CfgPrev.newVal /\ CfgPrev.newVal <= CfgLast.newVal)
       => /\ CfgPrev.rtrn <=> (CfgPrev.newVal = CfgPrev.ltchBfr \/ CfgPrev.newVal <= CfgPrev.prdBfr)
          /\ CfgPrev.rtrn =>
                /\ CfgLast.rtrn
                /\ ls.ltchRlsTtlTm = CfgPrev.newVal /\ ls.prdCyclTtlTm = CfgLast.newVal
          /\ ~CfgPrev.rtrn => CfgLast.ltchBfr = CfgPrev.ltchBfr
    /\ (/\ Len(cfgLog) >= 3
        /\ CfgPrev2.op = "setLtchRlsTtlTm" /\ CfgPrev.op = "setPrdCyclTtlTm"
        /\ CfgLast.op = "setPrdCyclTtlTm"
        /\ 0 < CfgPrev2.newVal /\ CfgPrev2.newVal <= CfgPrev.newVal
        /\ CfgLast.newVal = CfgPrev2.newVal - 1
        /\ CfgPrev2.rtrn)
       => /\ ~CfgLast.rtrn
          /\ ls.ltchRlsTtlTm = CfgPrev2.newVal /\ ls.prdCyclTtlTm = CfgPrev.newVal

\* setLtchRlsTtlTm(2); setPrdCyclTtlTm(3); setPrdCyclTtlTm(1) on an object that
\* stored other times: true, true, false, and (2, 3) is stored.
C14_Witness ==
    /\ Len(cfgLog) = 3
    /\ CfgPrev2.op = "setLtchRlsTtlTm" /\ CfgPrev2.newVal = 2 /\ CfgPrev2.rtrn
    /\ CfgPrev2.ltchBfr = 1 /\ CfgPrev2.prdBfr = 2
    /\ CfgPrev.op = "setPrdCyclTtlTm" /\ CfgPrev.newVal = 3 /\ CfgPrev.rtrn
    /\ CfgLast.op = "setPrdCyclTtlTm" /\ CfgLast.newVal = 1 /\ ~CfgLast.rtrn
    /\ ls.ltchRlsTtlTm = 2 /\ ls.prdCyclTtlTm = 3

\* The ten flags of the object, as lsSwtchOtpts_t names them.
LsSwtchFlgs ==
    [lftHndIsEnbld |-> ls.hnd["lft"].isEnabled,
     lftHndIsOn |-> ls.hnd["lft"].isOn,
     lftHndIsVdd |-> ls.hnd["lft"].isVoided,
     rghtHndIsEnbld |-> ls.hnd["rght"].isEnabled,
     rghtHndIsOn |-> ls.hnd["rght"].isOn,
     rghtHndIsVdd |-> ls.hnd["rght"].isVoided,
     ftSwIsEnbld |-> ls.ft.isEnabled,
     ftSwIsOn |-> ls.ft.isOn,
     ltchRlsIsOn |-> ls.ltchRlsIsOn,
     prdCyclIsOn |-> ls.prdCyclIsOn]

BitVal(flag) == IF flag THEN 1 ELSE 0

\* C15: for every combination of the ten flags, decoding the status word the
\* object encodes gives back exactly the ten flags.
C15_CodecRoundTrip ==
    \A d \in cdc.dcdd : d = LsSwtchFlgs

\* The round trip of a word with flags set and flags clear in each switch.
C15_Witness ==
    /\ cdc.dcdd = {LsSwtchFlgs}
    /\ cdc.word = 2 ^ 9 + 2 ^ 6 + 2 ^ 5 + 2 ^ 1

\* C16: the status word has bit 0 = left hand enabled, 1 = left hand on, 2 = left
\* hand voided, 3 = right hand enabled, 4 = right hand on, 5 = right hand voided,
\* 6 = foot enabled, 7 = foot on, 8 = latch release on, 9 = production cycle on,
\* and every higher bit is 0.
C16_SttsWordLayout ==
    cdc.word # -1 =>
        /\ cdc.word = BitVal(ls.hnd["lft"].isEnabled) * 1
                     + BitVal(ls.hnd["lft"].isOn) * 2
                     + BitVal(ls.hnd["lft"].isVoided) * 4
                     + BitVal(ls.hnd["rght"].isEnabled) * 8
                     + BitVal(ls.hnd["rght"].isOn) * 16
                     + BitVal(ls.hnd["rght"].isVoided) * 32
                     + BitVal(ls.ft.isEnabled) * 64
                     + BitVal(ls.ft.isOn) * 128
                     + BitVal(ls.ltchRlsIsOn) * 256
                     + BitVal(ls.prdCyclIsOn) * 512
        /\ cdc.word \in 0..1023

\* All ten flags set: the word is 0x3FF.
C16_Witness ==
    /\ cdc.word = 1023
    /\ \A h \in Hnds : ls.hnd[h].isEnabled /\ ls.hnd[h].isOn /\ ls.hnd[h].isVoided
    /\ ls.ft.isEnabled /\ ls.ft.isOn /\ ls.ltchRlsIsOn /\ ls.prdCyclIsOn

\* C18: after any sequence of setLsSwtchOtptsChng calls, turn-on and turn-off
\* operations and ticks, the flag lsSwtchOtptsChng equals (counter > 0), and a
\* "set false" call made at counter 0 leaves the counter at 0.
C18_FlagIsCntPositive ==
    /\ ls.lsSwtchOtptsChng = (ls.lsSwtchOtptsChngCnt > 0)
    /\ tickFrom = "setFalseAtZero" => ls.lsSwtchOtptsChngCnt = 0

\* A "set false" call at counter 0, in a cycle whose outputs were turned on by
\* a tick and notified.
C18_Witness ==
    /\ tickFrom = "setFalseAtZero"
    /\ ls.prdCyclIsOn
    /\ ls.tskToNtfyLsSwtchOtptsChng
    /\ ls.lsSwtchOtptsChngCnt = 0 /\ ~ls.lsSwtchOtptsChng

\* The step is a tick of the poll timer.
IsTick == tickFrom' \in fdaLsSwtchStts

\* The object after the FDA pass of the tick being taken, before the dispatch.
FdaPass ==
    updFdaState([ls EXCEPT !.curTimeMs = ls'.curTimeMs, !.mssdAcks = 0],
                getUndrlSwtchStts(ls), ltchRlsPndng).ls

\* C19: in every tick, if lsSwtchOtptsChng is true after the FDA pass, the
\* status word is dispatched and the notifier is cleared: lsSwtchOtptsChng is
\* false when the tick ends. Stated for the ticks that have a task to notify
\* and that start with nothing pending from before.
C19_NtfClrdAtTickEnd ==
    [][(IsTick /\ FdaPass.lsSwtchOtptsChng /\ ls.tskToNtfyLsSwtchOtptsChng
               /\ ls.lsSwtchOtptsChngCnt = 0)
          => ~ls'.lsSwtchOtptsChng]_vars

\* The number of public outputs the FDA pass of the tick being taken changes.
OtptsChngd ==
    BitVal(FdaPass.ltchRlsIsOn # ls.ltchRlsIsOn) + BitVal(FdaPass.prdCyclIsOn # ls.prdCyclIsOn)

\* The FDA pass of the tick being taken changes the enablement of a switch.
EnblmntChngd ==
    \/ \E h \in Hnds : FdaPass.hnd[h].isEnabled # ls.hnd[h].isEnabled
    \/ FdaPass.ft.isEnabled # ls.ft.isEnabled

\* The marks of one FDA pass do not wrap the counter.
NoCntWrap == ls.lsSwtchOtptsChngCnt + 2 < CntMod

\* The FDA pass of the tick being taken changes the FDA state.
FdaSttChngd == FdaPass.lsSwtchFdaState # ls.lsSwtchFdaState

C11_ResetFdaOtptsOff ==
    /\ tickFrom = "resetFda" =>
          /\ ls.lsSwtchFdaState = stOffNotBHP /\ ls.sttChng
          /\ ~ls.ltchRlsIsOn /\ ~ls.prdCyclIsOn
    /\ tickFrom = "resetFdaTickDone" => (~ls.ltchRlsIsOn /\ ~ls.prdCyclIsOn)

\* C17: two setLsSwtchOtptsChng(true) calls made by concurrent callers, followed
\* by one setLsSwtchOtptsChng(false), leave lsSwtchOtptsChng true, and no
\* increment is lost: the counter is one more than before the calls.
C17_NoIncrementLost ==
    rc.flushed =>
        /\ ls.lsSwtchOtptsChng
        /\ ls.lsSwtchOtptsChngCnt = rc.cnt0 + 1

\* The step is a tick, a resetFda call or a clrStatus call.
IsCbStep == IsTick \/ tickFrom' \in {"resetFda", "clrStatus"}

\* The notifications sent in the step being taken, in the order sent.
StepNtfd ==
    IF IsTick THEN lsSwtchPollCb(ls, ltchRlsPndng, ls'.curTimeMs).ntfd ELSE ls'.ntfd

\* How many times the target (via, knd) was notified in the log.
NtfCnt(log, via, knd) ==
    Cardinality({i \in 1..Len(log) : log[i].via = via /\ log[i].knd = knd})

\* The target (via, knd) is set in the object.
NtfSet(via, knd) ==
    IF via = "tsk" THEN ls.tskToNtfy[knd] ELSE ls.fnWhn[knd]

\* C21: the task and the function set for "latch release turned off" (resp.
\* "production cycle turned off") run once every time ltchRlsIsOn (resp.
\* prdCyclIsOn) goes from true to false, also when resetFda or clrStatus clears
\* it; those set for "turned on" run once every time the flag goes from false
\* to true; none runs when the flag does not change.
C21_TrnOnOffNtfdOnEveryChng ==
    [][IsCbStep =>
          \A via \in {"tsk", "fn"} :
              /\ NtfCnt(StepNtfd, via, "TrnOffLtchRls")
                    = BitVal(NtfSet(via, "TrnOffLtchRls") /\ ls.ltchRlsIsOn /\ ~ls'.ltchRlsIsOn)
              /\ NtfCnt(StepNtfd, via, "TrnOffPrdCycl")
                    = BitVal(NtfSet(via, "TrnOffPrdCycl") /\ ls.prdCyclIsOn /\ ~ls'.prdCyclIsOn)
              /\ NtfCnt(StepNtfd, via, "TrnOnLtchRls")
                    = BitVal(NtfSet(via, "TrnOnLtchRls") /\ ~ls.ltchRlsIsOn /\ ls'.ltchRlsIsOn)
              /\ NtfCnt(StepNtfd, via, "TrnOnPrdCycl")
                    = BitVal(NtfSet(via, "TrnOnPrdCycl") /\ ~ls.prdCyclIsOn /\ ls'.prdCyclIsOn)]_vars

\* C22 (as claimed): every task notification sent in a tick (output change,
\* latch release on/off, production cycle on/off, both hands missed) carries
\* the status word of the moment it is sent.
C22_EveryNtfCarriesSttsWord ==
    [][IsTick =>
          \A i \in 1..Len(StepNtfd) :
              StepNtfd[i].via = "tsk" => StepNtfd[i].val = StepNtfd[i].word]_vars

\* C22 (amended): the output change notification carries the status word of the
\* moment it is sent; the latch release on/off, production cycle on/off and
\* both hands missed notifications carry the value 0.
C22_OnlyOtptsChngCarriesSttsWord ==
    [][IsTick =>
          \A i \in 1..Len(StepNtfd) :
              StepNtfd[i].via = "tsk" =>
                  IF StepNtfd[i].knd = "LsSwtchOtptsChng"
                  THEN StepNtfd[i].val = StepNtfd[i].word
                  ELSE StepNtfd[i].val = 0]_vars

\* The tick that turned both outputs on with every task set: the two turn-on
\* tasks were notified, then the output change task.
C22_Witness ==
    /\ tickFrom = stStrtRlsStrtCycl
    /\ ls.tskToNtfyLsSwtchOtptsChng /\ ls.lsSwtchOtptsChngCnt = 1
    /\ NtfCnt(ls.ntfd, "tsk", "TrnOnLtchRls") = 1
    /\ NtfCnt(ls.ntfd, "tsk", "TrnOnPrdCycl") = 1
    /\ ls.ltchRlsIsOn /\ ls.prdCyclIsOn

\* C23: after the setter of a task to notify was called with NULL the stored
\* handle is NULL (no notification of that kind can be sent), whatever the
\* state of the task stored before.
C23_NullUnsetsTskToNtfy ==
    /\ tickFrom = "setTskNullLsSwtchOtptsChng" => ~ls.tskToNtfyLsSwtchOtptsChng
    /\ tickFrom = "setTskNullBthHndsOnMssd" => ~ls.tskToNtfy["BthHndsOnMssd"]

\* C24: begin(pollDelayMs) with pollDelayMs below the underlying switches'
\* poll delay returns false and starts nothing: no underlying switch's polling
\* is begun, no poll timer is created.
C24_BeginBelowPollDelayStartsNothing ==
    [][tickFrom' = "begin" /\ cfgLog'[1].arg < ls.undrlSwtchsPollDelay
         => ~cfgLog'[1].result /\ ls' = ls]_vars

\* begin was called with a poll delay at or above the minimum but below the
\* underlying switches' poll delay, on an object not begun; nothing runs.
C24_Witness ==
    /\ tickFrom = "begin"
    /\ MinPollDelay <= cfgLog[1].arg /\ cfgLog[1].arg < ls.undrlSwtchsPollDelay
    /\ ~cfgLog[1].result
    /\ \A x \in Swtchs : ~ls.undrlBgn[x]
    /\ ~ls.lsSwtchPollTmrHndl

\* C25: begin returns true only if the three underlying switches' polling and
\* the object's own poll timer run after the call; it returns false if one of
\* them failed to start, the creation or the start of the own poll timer
\* included.
C25_BeginTrueOnlyIfAllStarted ==
    tickFrom = "begin" /\ cfgLog[1].result
        => /\ \A x \in Swtchs : ls.undrlBgn[x]
           /\ ls.lsSwtchPollTmrHndl /\ ls.lsSwtchPollTmrActv

\* C26: once the FDA is in stEmrgncyExcpHndl no tick changes the FDA state or
\* the two outputs, and no operation but resetFda takes the FDA out of it;
\* resetFda takes it to stOffNotBHP.
C26_EmrgncyLeftByResetFdaOnly ==
    [][ls.lsSwtchFdaState = stEmrgncyExcpHndl =>
          IF tickFrom' = "resetFda"
          THEN ls'.lsSwtchFdaState = stOffNotBHP
          ELSE /\ ls'.lsSwtchFdaState = stEmrgncyExcpHndl
               /\ IsTick => /\ ls'.ltchRlsIsOn = ls.ltchRlsIsOn
                             /\ ls'.prdCyclIsOn = ls.prdCyclIsOn]_vars

\* A tick has run in stEmrgncyExcpHndl, entered in mid cycle: the FDA is still
\* there, its entry code done, the outputs as they were.
C26_Witness ==
    /\ tickFrom = stEmrgncyExcpHndl
    /\ ls.lsSwtchFdaState = stEmrgncyExcpHndl
    /\ ~ls.sttChng
    /\ ls.ltchRlsIsOn /\ ls.prdCyclIsOn

\* C27: while a hand switch is configured disabled (swtchIsEnbld false) its
\* underlying switch is disabled: it does not follow its button, whose
\* being pressed, released or held makes no step of the FDA's inputs, and it
\* shows the FDA the fixed isOnDisabled value, not voided.
C27_DsbldHndIgnrd ==
    \A h \in Hnds :
        ~ls.hndBhvrCfg[h]
            => /\ ~ls.hnd[h].isEnabled
               /\ ls.hnd[h].isOn = ls.hnd[h].isOnDisabled
               /\ ~ls.hnd[h].isVoided

\* With the left hand switch configured disabled, a cycle was started by the
\* right hand and the foot alone.
C27_Witness ==
    /\ ~ls.hndBhvrCfg["lft"] /\ ls.hndBhvrCfg["rght"]
    /\ tickFrom = stStrtRlsStrtCycl
    /\ ls.ltchRlsIsOn /\ ls.prdCyclIsOn

\* C28: no consumer reads a status word in which latchReleaseOn has been
\* turned on and productionCycleOn has not yet: the changes of a tick show to
\* a consumer only once all of them are made.
C28_NoHalfUpdtdSttsWord ==
    [][tickFrom' = "getLsSwtchOtptsSttsPkgd"
         => ~(/\ BitOf(getLsSwtchOtptsSttsPkgd(ls), LsSwtchLtchRlsIsOnBP) = 1
              /\ BitOf(getLsSwtchOtptsSttsPkgd(ls), LsSwtchPrdCyclIsOnBP) = 0)]_vars

\* C29: the status snapshot is written by the tick only; a consumer's call of
\* getLsSwtchOtptsSttsPkgd changes neither the snapshot nor any other member
\* of the object.
C29_GetSttsPkgdWritesNothing ==
    [][tickFrom' = "getLsSwtchOtptsSttsPkgd" => ls' = ls]_vars

\* C30: a request to enable or disable a hand switch made in any FDA state is
\* not lost: once the FDA has run the entry code of stOffNotBHP after the
\* request, the stored configuration and the underlying switch's isEnabled
\* both equal the value last requested for that hand.
C30_HndCnfgReqNotLost ==
    [][IsTick /\ tickFrom' = stOffNotBHP /\ ls.sttChng /\ cfgLog # <<>>
         => /\ ls'.hndBhvrCfg[cfgLog[1].hnd] = cfgLog[1].swtchIsEnbld
            /\ ls'.hnd[cfgLog[1].hnd].isEnabled = cfgLog[1].swtchIsEnbld]_vars

\* C31 (as claimed): after clrStatus or resetFda the interlock state has its
\* construction-time values: FDA state stOffNotBHP, both outputs off, cycle
\* start 0, the pending foot-press flag false and the output-change counter 0.
C31_RstToCtorVals ==
    tickFrom \in {"resetFda", "clrStatus"} =>
        /\ FdaSt = stOffNotBHP
        /\ ~ls.ltchRlsIsOn /\ ~ls.prdCyclIsOn
        /\ ls.prdCyclTmrStrt = 0
        /\ ~ltchRlsPndng
        /\ ls.lsSwtchOtptsChngCnt = 0

\* C32 (as claimed): the pending foot-press flag is false whenever the FDA
\* enters stOffBHPNotFP, so that only a foot press of the current armed window
\* can start a cycle.
C32_PndngFalseOnArming ==
    [][(IsTick /\ ls.lsSwtchFdaState # stOffBHPNotFP /\ ls'.lsSwtchFdaState = stOffBHPNotFP)
          => ~ltchRlsPndng']_vars

\* C33: a tick evaluated in stOffBHPNotFP whose snapshot shows not both hands on
\* goes to stOffNotBHP and disables the foot switch, also when a foot press is
\* pending; no output is turned on by that tick nor by the following one: the
\* FDA stays in stOffNotBHP until the next tick, and a tick evaluated in
\* stOffNotBHP turns no output on.
C33_HndsChkBfrFtPrss ==
    /\ [][(IsTick /\ ls.lsSwtchFdaState = stOffBHPNotFP /\ ~bothHndsOn(getUndrlSwtchStts(ls)))
            => /\ ls'.lsSwtchFdaState = stOffNotBHP
               /\ ~ls'.ft.isEnabled
               /\ ~ls'.ltchRlsIsOn /\ ~ls'.prdCyclIsOn]_vars
    /\ [][ls.lsSwtchFdaState = stOffNotBHP
            => /\ ~IsTick => ls'.lsSwtchFdaState = stOffNotBHP
               /\ ~ls'.ltchRlsIsOn /\ ~ls'.prdCyclIsOn]_vars

\* The hands were missed with a foot press pending: the FDA is back in
\* stOffNotBHP, the foot switch disabled, both outputs off.
C33_Witness ==
    /\ tickFrom = stOffBHPNotFP /\ FdaSt = stOffNotBHP /\ ltchRlsPndng
    /\ ~ls.ft.isEnabled /\ ~ls.ltchRlsIsOn /\ ~ls.prdCyclIsOn

\* C34 (as claimed): with two objects in one program an object starts a cycle
\* only if its own foot switch has fired: a foot press on the first object
\* never makes the second one accept a foot press or start a cycle.
C34_CyclOnlyByOwnFt ==
    InCycl(othr.ls) => othr.ftPrssd

\* C35: between ticks, after any sequence of ticks, resetFda, clrStatus and
\* setter calls, latchReleaseOn is true only in stEndRls, productionCycleOn is
\* true only in stEndRls or stEndCycl, and latchReleaseOn implies
\* productionCycleOn.
C35_OtptsFollowFda ==
    /\ ls.ltchRlsIsOn => FdaSt = stEndRls
    /\ ls.prdCyclIsOn => FdaSt \in {stEndRls, stEndCycl}
    /\ ls.ltchRlsIsOn => ls.prdCyclIsOn

\* A tick evaluated in stEndRls before the latch release time is up: both
\* outputs stay on.
C35_Witness ==
    /\ tickFrom = stEndRls /\ FdaSt = stEndRls
    /\ ls.ltchRlsIsOn /\ ls.prdCyclIsOn

\* The poll timer is an auto-reload timer (begin): once started it keeps firing,
\* and each run of lsSwtchPollCb reads the time base, which has advanced.  Only
\* a tick writes curTimeMs, and a tick advances it by less than half a wrap, so
\* the ticks keep occurring exactly when curTimeMs is again and again in either
\* half of the time base's range.
TicksKeepOccurring ==
    /\ []<>(ls.curTimeMs < ULongMod \div 2)
    /\ []<>(ls.curTimeMs >= ULongMod \div 2)

\* The interlock on its own: the poll timer and the switches, no call from the
\* application.
NextLv ==
    \/ PollTick
    \/ \E h \in Hnds : HndPress(h)
    \/ \E h \in Hnds : HndRelease(h)
    \/ \E h \in Hnds : HndVoid(h)
    \/ FtPress
    \/ FtRelease

SpecLv == Init /\ [][NextLv]_vars /\ TicksKeepOccurring

C37_NtfOnlyWhenOtptChngd ==
    [][(IsTick /\ ls.tskToNtfyLsSwtchOtptsChng /\ ntfyLsSwtchOtptsChng_ntfd(FdaPass) # <<>>)
          => OtptsChngd > 0]_vars

\* C38: the FDA state stEmrgncyExcpHndl is unreachable: no sequence of ticks,
\* switch events, setter calls, clrStatus and resetFda calls starting from
\* construction puts the FDA in that state.
C38_EmrgncyUnreachable ==
    FdaSt # stEmrgncyExcpHndl

\* A whole cycle has run through every state of the loop, and its last tick
\* has put the FDA back in stOffNotBHP.
C38_Witness ==
    /\ tickFrom = stEndCycl /\ FdaSt = stOffNotBHP
    /\ ls.sttChng /\ ~ls.prdCyclIsOn /\ ls.curTimeMs # 0

\* C39: the elapsed-time tests of stEndRls and stEndCycl stay right when the
\* time base wraps during a cycle: an output is not turned off before its
\* configured time has gone by since the cycle start, and, the cycle being
\* shorter than one wrap of the time base, the tick evaluated in stEndRls
\* (resp. stEndCycl) turns latchReleaseOn (resp. productionCycleOn) off exactly
\* when that time has gone by.
C39_ElpsdTstsRightOverWrap ==
    [][(IsTick /\ tickFrom' \in {stEndRls, stEndCycl}) =>
          /\ (ls.ltchRlsIsOn /\ ~ls'.ltchRlsIsOn) => cfgLog'[1].elpsd >= ls.ltchRlsTtlTm
          /\ (ls.prdCyclIsOn /\ ~ls'.prdCyclIsOn) => cfgLog'[1].elpsd >= ls.prdCyclTtlTm
          /\ cfgLog'[1].elpsd < ULongMod =>
                IF tickFrom' = stEndRls
                THEN ~ls'.ltchRlsIsOn <=> cfgLog'[1].elpsd >= ls.ltchRlsTtlTm
                ELSE ~ls'.prdCyclIsOn <=> cfgLog'[1].elpsd >= ls.prdCyclTtlTm]_vars

\* The cycle started shortly before the wrap and the tick that turned
\* latchReleaseOn off read a time smaller than the cycle start.
C39_Witness ==
    /\ tickFrom = stEndRls /\ FdaSt = stEndCycl
    /\ ~ls.ltchRlsIsOn /\ ls.prdCyclIsOn
    /\ ls.curTimeMs < ls.prdCyclTmrStrt
    /\ cfgLog[1].elpsd >= ls.ltchRlsTtlTm /\ cfgLog[1].elpsd < ULongMod

====
